---- MODULE Spec2Model ----
(***************************************************************************)
(* A model of the ringlet daemon (crates/clownd, crates/ringletd): the     *)
(* sidecar proxy supervisor and its port allocator, the PTY terminal       *)
(* session fabric, the daemon lifecycle and IPC loop, the usage watcher,   *)
(* the telemetry collector, the profile store and its handlers, the        *)
(* registry client, the event WebSocket, the environment of an agent       *)
(* process, the import and export of hooks, the port of the HTTP task and  *)
(* the two locks of the terminal session manager.                          *)
(*                                                                         *)
(* Conventions.  A Rust HashMap is a function whose DOMAIN is the set of   *)
(* keys present.  Option<T> is a sequence of length 0 (None) or 1 (Some).  *)
(* Every async call is a task with a program counter; one action is one    *)
(* stretch of code between two suspension points (.await) of the runtime.  *)
(***************************************************************************)
EXTENDS Integers, Sequences, FiniteSets, TLC

VARIABLES
    port_allocator,   \* PortAllocator {allocated, assignments}
    allocLog,         \* ghost: the last allocate/release call and its result
    held,             \* ghost: alias -> Option<port> returned since its last release
    instances,        \* ProxyManager.instances: alias -> ProxyInstance
    instLock,         \* the task holding the write lock on instances (0: nobody)
    procs,            \* the sidecar processes spawned so far, by pid
    task,             \* the proxy calls in flight, one per caller task
    sess,             \* the TerminalSession objects created so far, by session id
    sessions,         \* TerminalSessionManager.sessions: the ids tracked
    profile_sessions, \* TerminalSessionManager.profile_sessions: alias -> id
    ptask,            \* the terminal manager calls in flight, one per caller task
    scrollback,       \* per session: TerminalSession.scrollback
    sbchan,           \* per session: the reader -> scrollback writer channel
    reader,           \* per session: the blocking PTY reader
    client,           \* the terminal WebSocket handlers
    main,             \* the daemon's main task: where it is, what run returned, why
    idle_timeout,     \* Option<Duration>: None with --stay-alive
    shutdown_flag,    \* the flag the idle watchdog sets
    watchdog,         \* the idle watchdog task: none, sleeping, done
    clock,            \* ticks since last_activity, ticks until the watchdog wakes
    ipc,              \* the IPC socket: the message waiting, the exchange going on
    chan,             \* the shutdown oneshot channels
    http,             \* the HTTP task: starting, serving, done
    files,            \* which of the PID, endpoint and socket files exist
    shutdownLog,      \* ghost: the shutdown steps main has taken, in order
    ufile,            \* the watched usage logs: path -> characters
    positions,        \* FilePositions.positions
    seen_ids,         \* FilePositions.seen_ids
    events,           \* ghost: the entries broadcast as UsageUpdated, in order
    uwatch,           \* ghost: first tokens per key, duplicates dropped, budgets
    sessions_log,     \* sessions.jsonl
    aggregates_file,  \* aggregates.json
    rtask,            \* the record_session calls in flight
    recorded,         \* the number of record_session calls made
    profile_files,    \* the profiles directory: alias -> the Profile in <alias>.json
    home_dirs,        \* the profile homes that exist: path -> whether it holds files
    registry_lock,    \* the task holding the agent_registry mutex (0: nobody)
    hreq,             \* the profile and hooks handlers in flight, one per caller task
    now,              \* the wall clock as Utc::now() reads it
    hcalls,           \* the number of handler calls made
    lock_file,        \* registry.lock: None if missing, else the RegistryLock in it
    commits,          \* the registry cache: the commits that have a directory
    remote,           \* the registry index the remote serves now
    wall,             \* the wall clock, in half hours
    sreq,             \* the registry handlers in flight, one per caller task
    scalls,           \* the number of registry calls made
    ws,               \* the event WebSocket handler of one connection
    exec,             \* one ExecutionAdapter::run: the daemon's environment, the inputs, the child's
    trip,             \* ghost: a client's import, export, import of a hooks configuration
    listener,         \* the HTTP task's configured port and the TCP port it has bound
    mgr               \* the manager's two RwLocks and the calls that take them, one per caller task

allocVars == <<port_allocator, allocLog, held>>
proxyVars == <<instances, instLock, procs, task>>
ptyVars == <<sess, sessions, profile_sessions, ptask>>
attachVars == <<scrollback, sbchan, reader, client>>

daemonVars == <<main, idle_timeout, shutdown_flag, watchdog, clock, ipc, chan, http, files,
                shutdownLog>>
usageVars == <<ufile, positions, seen_ids, events, uwatch>>
telemetryVars == <<sessions_log, aggregates_file, rtask, recorded>>
profileVars == <<profile_files, home_dirs, registry_lock, hreq, now, hcalls>>
registryVars == <<lock_file, commits, remote, wall, sreq, scalls>>
wsVars == <<ws>>
execVars == <<exec>>
tripVars == <<trip>>
listenVars == <<listener>>
mgrVars == <<mgr>>
restVars == <<registryVars, wsVars, execVars, tripVars, listenVars, mgrVars>>
\* what a step of one of these parts leaves alone among them
besideRegistry == <<wsVars, execVars, tripVars, listenVars, mgrVars>>
besideWs == <<registryVars, execVars, tripVars, listenVars, mgrVars>>
besideExec == <<registryVars, wsVars, tripVars, listenVars, mgrVars>>
besideTrip == <<registryVars, wsVars, execVars, listenVars, mgrVars>>
besideListen == <<registryVars, wsVars, execVars, tripVars, mgrVars>>
besideMgr == <<registryVars, wsVars, execVars, tripVars, listenVars>>

vars == <<allocVars, proxyVars, ptyVars, attachVars, daemonVars, usageVars, telemetryVars, profileVars, restVars>>

----------------------------------------------------------------------------
(* Option<T> *)
None == <<>>
Some(x) == <<x>>
IsSome(o) == Len(o) = 1
Unwrap(o) == o[1]

(* map helpers: HashMap::insert / HashMap::remove *)
MapInsert(m, k, v) == [x \in DOMAIN m \cup {k} |-> IF x = k THEN v ELSE m[x]]
MapRemove(m, k) == [x \in DOMAIN m \ {k} |-> m[x]]
EmptyMap == [x \in {} |-> 0]

----------------------------------------------------------------------------
(* Bounds of the model *)
NumAliases == 2
NumTasks == 2
MaxSpawn == 3

Aliases == 1..NumAliases

----------------------------------------------------------------------------
(* proxy_manager.rs: the port allocator *)
BASE_PORT == 8080
MAX_PORT == 8180

\* the preferred ports a caller may ask for: none, below, inside, and above the range
Preferred == {None, Some(BASE_PORT - 1), Some(BASE_PORT), Some(BASE_PORT + 1),
              Some(MAX_PORT), Some(MAX_PORT + 1)}

PortAllocatorNew == [allocated |-> {}, assignments |-> EmptyMap]

Ok(p) == [ok |-> TRUE, port |-> p]
Err == [ok |-> FALSE, port |-> 0]

FreePorts(alloc) == {p \in BASE_PORT..MAX_PORT : p \notin alloc.allocated}

Assign(alloc, alias, port) ==
    [allocated |-> alloc.allocated \cup {port},
     assignments |-> MapInsert(alloc.assignments, alias, port)]

\* a plausible slip: the existing assignment is not looked up first
allocate_no_lookup(alloc, alias, preferred) ==
    IF /\ IsSome(preferred)
       /\ Unwrap(preferred) >= BASE_PORT
       /\ Unwrap(preferred) <= MAX_PORT
       /\ Unwrap(preferred) \notin alloc.allocated
    THEN [alloc |-> Assign(alloc, alias, Unwrap(preferred)), result |-> Ok(Unwrap(preferred))]
    ELSE IF FreePorts(alloc) # {}
    THEN LET port == CHOOSE p \in FreePorts(alloc) : \A q \in FreePorts(alloc) : p <= q
         IN [alloc |-> Assign(alloc, alias, port), result |-> Ok(port)]
    ELSE [alloc |-> alloc, result |-> Err]

\* a plausible slip: the preferred port is taken without asking whether it is
\* allocated
allocate_preferred_unchecked(alloc, alias, preferred) ==
    IF alias \in DOMAIN alloc.assignments
    THEN [alloc |-> alloc, result |-> Ok(alloc.assignments[alias])]
    ELSE IF /\ IsSome(preferred)
            /\ Unwrap(preferred) >= BASE_PORT
            /\ Unwrap(preferred) <= MAX_PORT
    THEN [alloc |-> Assign(alloc, alias, Unwrap(preferred)), result |-> Ok(Unwrap(preferred))]
    ELSE IF FreePorts(alloc) # {}
    THEN LET port == CHOOSE p \in FreePorts(alloc) : \A q \in FreePorts(alloc) : p <= q
         IN [alloc |-> Assign(alloc, alias, port), result |-> Ok(port)]
    ELSE [alloc |-> alloc, result |-> Err]

\* a plausible slip: the scan runs from max_port down
allocate_highest_free(alloc, alias, preferred) ==
    IF alias \in DOMAIN alloc.assignments
    THEN [alloc |-> alloc, result |-> Ok(alloc.assignments[alias])]
    ELSE IF /\ IsSome(preferred)
            /\ Unwrap(preferred) >= BASE_PORT
            /\ Unwrap(preferred) <= MAX_PORT
            /\ Unwrap(preferred) \notin alloc.allocated
    THEN [alloc |-> Assign(alloc, alias, Unwrap(preferred)), result |-> Ok(Unwrap(preferred))]
    ELSE IF FreePorts(alloc) # {}
    THEN LET port == CHOOSE p \in FreePorts(alloc) : \A q \in FreePorts(alloc) : p >= q
         IN [alloc |-> Assign(alloc, alias, port), result |-> Ok(port)]
    ELSE [alloc |-> alloc, result |-> Err]

\* PortAllocator::allocate: the pair (allocator after the call, Result<u16>)
allocate(alloc, alias, preferred) ==
    IF alias \in DOMAIN alloc.assignments
    THEN [alloc |-> alloc, result |-> Ok(alloc.assignments[alias])]
    ELSE IF /\ IsSome(preferred)
            /\ Unwrap(preferred) >= BASE_PORT
            /\ Unwrap(preferred) <= MAX_PORT
            /\ Unwrap(preferred) \notin alloc.allocated
    THEN [alloc |-> Assign(alloc, alias, Unwrap(preferred)), result |-> Ok(Unwrap(preferred))]
    ELSE IF FreePorts(alloc) # {}
    THEN LET port == CHOOSE p \in FreePorts(alloc) : \A q \in FreePorts(alloc) : p <= q
         IN [alloc |-> Assign(alloc, alias, port), result |-> Ok(port)]
    ELSE [alloc |-> alloc, result |-> Err]

\* PortAllocator::release
release(alloc, alias) ==
    IF alias \in DOMAIN alloc.assignments
    THEN [allocated |-> alloc.allocated \ {alloc.assignments[alias]},
          assignments |-> MapRemove(alloc.assignments, alias)]
    ELSE alloc

NoCall == [op |-> "none", alias |-> 0, preferred |-> None,
           before |-> PortAllocatorNew, result |-> Err, prev |-> None]

InitAlloc ==
    /\ port_allocator = PortAllocatorNew
    /\ allocLog = NoCall
    /\ held = [a \in Aliases |-> None]

TaskIds == 1..NumTasks

\* no call in flight: ret is what the last call returned, path the way the
\* last stop(alias) took
IdleTask == [op |-> "none", pc |-> "idle", alias |-> 0, port |-> 0, pid |-> 0,
             todo |-> {}, ret |-> None, path |-> ""]

\* ProxyManager::new
InitProxy ==
    /\ instances = EmptyMap
    /\ instLock = 0
    /\ procs = <<>>
    /\ task = [t \in TaskIds |-> IdleTask]

\* one call of allocate, with the ghost record of what it saw and returned
DoAllocate(alias, preferred) ==
    LET r == allocate(port_allocator, alias, preferred) IN
    /\ port_allocator' = r.alloc
    /\ allocLog' = [op |-> "allocate", alias |-> alias, preferred |-> preferred,
                    before |-> port_allocator, result |-> r.result, prev |-> held[alias]]
    /\ held' = IF r.result.ok THEN [held EXCEPT ![alias] = Some(r.result.port)] ELSE held
    /\ UNCHANGED <<proxyVars, ptyVars, attachVars, daemonVars, usageVars, telemetryVars, profileVars, restVars>>

DoRelease(alias) ==
    /\ port_allocator' = release(port_allocator, alias)
    /\ allocLog' = [NoCall EXCEPT !.op = "release", !.alias = alias, !.before = port_allocator]
    /\ held' = [held EXCEPT ![alias] = None]
    /\ UNCHANGED <<proxyVars, ptyVars, attachVars, daemonVars, usageVars, telemetryVars, profileVars, restVars>>

AllocCall == \E a \in Aliases, p \in Preferred : DoAllocate(a, p)
ReleaseCall == \E a \in Aliases : DoRelease(a)

----------------------------------------------------------------------------
(* proxy_manager.rs: ProxyManager.  A sidecar process is [alias, port, alive]; *)
(* its pid is its index in procs.  std::process::Child does not kill on drop.  *)

\* the profile's proxy_config.port
ConfigPorts == {None, Some(BASE_PORT + 1)}

\* the call returns r; its locals are gone
Return(t, r) == [IdleTask EXCEPT !.ret = Some(r)]

\* a process that has exited: what it was no longer matters
Exited == [alias |-> 0, port |-> 0, alive |-> FALSE, accepts |-> "never"]

AliveOf(a) == {pid \in DOMAIN procs : procs[pid].alive /\ procs[pid].alias = a}

\* when a sidecar starts to accept TCP connections on its port, counted from
\* its spawn: by the time start probes it (500 ms), after that and within 1 s,
\* or not within 1 s
AcceptTimes == {"by_probe", "late", "never"}

\* check_health(port) at the probe of the start that spawned own: the connect
\* succeeds if a sidecar on the port accepts by then, and it may if an older
\* sidecar on the port has come to accept since its own probe
Listening(port) ==
    \E pid \in DOMAIN procs :
        procs[pid].alive /\ procs[pid].port = port /\ procs[pid].accepts = "by_probe"
MayListen(port, own) ==
    \E pid \in DOMAIN procs :
        /\ procs[pid].alive /\ procs[pid].port = port
        /\ procs[pid].accepts = "by_probe" \/ (procs[pid].accepts = "late" /\ pid # own)

\* the starts that have not spawned their process yet
PendingSpawns ==
    Cardinality({t \in TaskIds : \/ task[t].pc \in {"s_check", "s_alloc"}
                                 \/ task[t].op = "restart"})

\* a request arrives: ProxyStart, ProxyStop, ProxyRestart or ProxyStopAll
Call(t) ==
    /\ task[t].pc = "idle"
    /\ \E op \in {"start", "stop", "restart", "stop_all"}, a \in Aliases :
          /\ op \in {"start", "restart"} => Len(procs) + PendingSpawns < MaxSpawn
          /\ task' = [task EXCEPT ![t] =
                [IdleTask EXCEPT !.op = op,
                                 !.alias = IF op = "stop_all" THEN 0 ELSE a,
                                 !.pc = CASE op = "start" -> "s_check"
                                          [] op = "stop_all" -> "a_collect"
                                          [] OTHER -> "p_begin"]]
    /\ UNCHANGED <<instances, instLock, procs, allocVars>>
    /\ UNCHANGED <<ptyVars, attachVars, daemonVars, usageVars, telemetryVars, profileVars, restVars>>

\* start, "Check if already running": only a Running instance ends the call
already_running(inst, alias) == alias \in DOMAIN inst /\ inst[alias].status = "Running"

StartCheck(t) ==
    /\ task[t].pc = "s_check"
    /\ instLock = 0
    /\ task' = [task EXCEPT ![t] =
          IF already_running(instances, task[t].alias)
          THEN Return(t, Ok(instances[task[t].alias].port))
          ELSE [@ EXCEPT !.pc = "s_alloc"]]
    /\ UNCHANGED <<instances, instLock, procs, allocVars>>
    /\ UNCHANGED <<ptyVars, attachVars, daemonVars, usageVars, telemetryVars, profileVars, restVars>>

\* start, "Allocate port" with the profile's proxy_config.port, then the
\* directories, the config file, the log file and the spawn: each of these may
\* fail, and the call returns the error
StartAllocate(t) ==
    /\ task[t].pc = "s_alloc"
    /\ \E pref \in ConfigPorts :
       LET r == allocate(port_allocator, task[t].alias, pref) IN
       /\ port_allocator' = r.alloc
       /\ IF ~r.result.ok
          THEN /\ task' = [task EXCEPT ![t] = Return(t, Err)]
               /\ UNCHANGED procs
          ELSE \/ /\ \E acc \in AcceptTimes :
                        procs' = Append(procs, [alias |-> task[t].alias,
                                                port |-> r.result.port, alive |-> TRUE,
                                                accepts |-> acc])
                  /\ task' = [task EXCEPT ![t] =
                        [@ EXCEPT !.pc = "s_insert", !.port = r.result.port,
                                  !.pid = Len(procs) + 1]]
               \/ /\ task' = [task EXCEPT ![t] = Return(t, Err)]
                  /\ UNCHANGED procs
    /\ UNCHANGED <<instances, instLock, allocLog, held>>
    /\ UNCHANGED <<ptyVars, attachVars, daemonVars, usageVars, telemetryVars, profileVars, restVars>>

\* what start stores: HashMap::insert replaces an instance already there
store_instance(inst, alias, port, pid) ==
    MapInsert(inst, alias, [port |-> port, pid |-> pid, status |-> "Starting"])

\* start, "Store instance"
StartInsert(t) ==
    /\ task[t].pc = "s_insert"
    /\ instLock = 0
    /\ instances' = store_instance(instances, task[t].alias, task[t].port, task[t].pid)
    /\ task' = [task EXCEPT ![t] = [@ EXCEPT !.pc = "s_probe"]]
    /\ UNCHANGED <<instLock, procs, allocVars>>
    /\ UNCHANGED <<ptyVars, attachVars, daemonVars, usageVars, telemetryVars, profileVars, restVars>>

\* start: after the 500 ms sleep, check_health connects to 127.0.0.1:port
StartProbe(t) ==
    /\ task[t].pc = "s_probe"
    /\ \E h \in BOOLEAN :
          /\ h => MayListen(task[t].port, task[t].pid)
          /\ Listening(task[t].port) => h
          /\ task' = [task EXCEPT ![t] =
                IF h THEN [@ EXCEPT !.pc = "s_mark", !.pid = 0]
                ELSE Return(t, Ok(task[t].port))]
    /\ UNCHANGED <<instances, instLock, procs, allocVars>>
    /\ UNCHANGED <<ptyVars, attachVars, daemonVars, usageVars, telemetryVars, profileVars, restVars>>

\* start: Starting -> Running for the instance now stored under the alias
StartMark(t) ==
    /\ task[t].pc = "s_mark"
    /\ instLock = 0
    /\ instances' = IF task[t].alias \in DOMAIN instances
                    THEN [instances EXCEPT ![task[t].alias].status = "Running"]
                    ELSE instances
    /\ task' = [task EXCEPT ![t] = Return(t, Ok(task[t].port))]
    /\ UNCHANGED <<instLock, procs, allocVars>>
    /\ UNCHANGED <<ptyVars, attachVars, daemonVars, usageVars, telemetryVars, profileVars, restVars>>

\* stop_all: stop the next alias, in the HashMap's order, or return
NextToStop(tk) ==
    IF tk.todo = {}
    THEN {[IdleTask EXCEPT !.ret = Some(Ok(0))]}
    ELSE {[tk EXCEPT !.pc = "p_begin", !.alias = a, !.todo = @ \ {a}, !.pid = 0] :
             a \in tk.todo}

\* a plausible slip: the kill after the grace window is reported as an error
stop_result_kill_fails(path) == IF path = "killed" THEN Err ELSE Ok(0)

\* stop ends with Ok(()) whichever way it took
stop_result(path) == Ok(0)

\* where a call goes on after its stop: restart starts, stop_all loops
AfterStop(t, path) ==
    CASE task[t].op = "restart" ->
            {[task[t] EXCEPT !.op = "start", !.pc = "s_check", !.pid = 0, !.path = ""]}
      [] task[t].op = "stop_all" -> NextToStop([task[t] EXCEPT !.path = ""])
      [] OTHER -> {[IdleTask EXCEPT !.ret = Some(stop_result(path)), !.path = path]}

\* stop: take the write lock, remove the instance, send SIGTERM
StopBegin(t) ==
    /\ task[t].pc = "p_begin"
    /\ instLock = 0
    /\ IF task[t].alias \in DOMAIN instances
       THEN /\ instances' = MapRemove(instances, task[t].alias)
            /\ instLock' = t
            /\ task' = [task EXCEPT ![t] =
                  [@ EXCEPT !.pc = "p_wait", !.pid = instances[task[t].alias].pid]]
       ELSE /\ \E nx \in AfterStop(t, "untracked") : task' = [task EXCEPT ![t] = nx]
            /\ UNCHANGED <<instances, instLock>>
    /\ UNCHANGED <<procs, allocVars>>
    /\ UNCHANGED <<ptyVars, attachVars, daemonVars, usageVars, telemetryVars, profileVars, restVars>>

\* the ways out of the try_wait loop: the process has exited; it has not when
\* the 5 s grace window is over, and is killed; try_wait returns an error
stop_paths(alive) == {IF alive THEN "killed" ELSE "exited", "wait_error"}

\* stop: the try_wait loop, to its break
StopWait(t) ==
    /\ task[t].pc = "p_wait"
    /\ \E path \in stop_paths(procs[task[t].pid].alive) :
          /\ procs' = IF path = "wait_error" THEN procs
                      ELSE [procs EXCEPT ![task[t].pid] = Exited]
          /\ task' = [task EXCEPT ![t] = [@ EXCEPT !.pc = "p_release", !.pid = 0,
                                                   !.path = path]]
    /\ UNCHANGED <<instances, instLock, allocVars>>
    /\ UNCHANGED <<ptyVars, attachVars, daemonVars, usageVars, telemetryVars, profileVars, restVars>>

\* stop, "Release port", and the write guard is dropped on return
StopRelease(t) ==
    /\ task[t].pc = "p_release"
    /\ port_allocator' = release(port_allocator, task[t].alias)
    /\ instLock' = 0
    /\ \E nx \in AfterStop(t, task[t].path) : task' = [task EXCEPT ![t] = nx]
    /\ UNCHANGED <<instances, procs, allocLog, held>>
    /\ UNCHANGED <<ptyVars, attachVars, daemonVars, usageVars, telemetryVars, profileVars, restVars>>

\* stop_all: the aliases tracked now
StopAllCollect(t) ==
    /\ task[t].pc = "a_collect"
    /\ instLock = 0
    /\ \E nx \in NextToStop([task[t] EXCEPT !.todo = DOMAIN instances]) :
          task' = [task EXCEPT ![t] = nx]
    /\ UNCHANGED <<instances, instLock, procs, allocVars>>
    /\ UNCHANGED <<ptyVars, attachVars, daemonVars, usageVars, telemetryVars, profileVars, restVars>>

\* a sidecar exits: on SIGTERM, on a failed bind, or by itself
ProcExit ==
    /\ \E pid \in DOMAIN procs :
          /\ procs[pid].alive
          /\ procs' = [procs EXCEPT ![pid] = Exited]
    /\ UNCHANGED <<instances, instLock, task, allocVars>>
    /\ UNCHANGED <<ptyVars, attachVars, daemonVars, usageVars, telemetryVars, profileVars, restVars>>

\* all four requests, with sidecars that accept by the probe or not within the
\* second, and a try_wait that does not fail
PromptOrMute(ps) == \A pid \in DOMAIN ps : ps[pid].accepts # "late"

NextProxy ==
    \/ \E t \in TaskIds : Call(t)
    \/ \E t \in TaskIds : StartCheck(t)
    \/ \E t \in TaskIds : StartAllocate(t) /\ PromptOrMute(procs')
    \/ \E t \in TaskIds : StartInsert(t)
    \/ \E t \in TaskIds : StartProbe(t)
    \/ \E t \in TaskIds : StartMark(t)
    \/ \E t \in TaskIds : StopBegin(t)
    \/ \E t \in TaskIds : StopWait(t) /\ task'[t].path # "wait_error"
    \/ \E t \in TaskIds : StopRelease(t)
    \/ \E t \in TaskIds : StopAllCollect(t)
    \/ ProcExit

\* ProxyStart and ProxyStop requests for one alias, with sidecars that accept
\* at any time and a try_wait that may fail
NextStartStop ==
    \/ \E t \in TaskIds : Call(t) /\ task'[t].op \in {"start", "stop"} /\ task'[t].alias = 1
    \/ \E t \in TaskIds : StartCheck(t)
    \/ \E t \in TaskIds : StartAllocate(t)
    \/ \E t \in TaskIds : StartInsert(t)
    \/ \E t \in TaskIds : StartProbe(t)
    \/ \E t \in TaskIds : StartMark(t)
    \/ \E t \in TaskIds : StopBegin(t)
    \/ \E t \in TaskIds : StopWait(t)
    \/ \E t \in TaskIds : StopRelease(t)
    \/ ProcExit

----------------------------------------------------------------------------
(* terminal/session.rs: TerminalSession.  A session object lives as long as  *)
(* some task holds its Arc, whether or not the manager still tracks it, so   *)
(* sess keeps every object created.  PTY output bytes are numbered 1, 2, ... *)
(* in the order the child wrote them.                                        *)

MaxSessions == 2
\* capacity of the input channel (mpsc::channel(256)), scaled
MaxInput == 1
\* MAX_SCROLLBACK_SIZE (1 MiB), scaled
MaxScrollback == 2
\* capacity of the scrollback channel (mpsc::channel(256)), scaled
ScrollbackChanCap == 1
\* capacity of the output channel (broadcast::channel(256)), scaled
BroadcastCap == 2
\* the bytes the child writes in all, and the most one read returns (4096, scaled)
MaxOutput == 4
MaxRead == 2
NumClients == 1

SessionIds == 1..MaxSessions
Clients == 1..NumClients

\* SessionState
Starting == [tag |-> "Starting", exit_code |-> None]
Running == [tag |-> "Running", exit_code |-> None]
Terminated(exit_code) == [tag |-> "Terminated", exit_code |-> exit_code]

\* create_session: the size of a session created without one, and the sizes
\* a client asks for
InitialSize == [cols |-> 80, rows |-> 24]
Sizes == {[cols |-> 100, rows |-> 30], [cols |-> 132, rows |-> 43]}

\* TerminalSession::new, with the position of the session's spawn task (pc),
\* its child process, what the writer task has written to the PTY (tty), and
\* the last Resize a client has sent (resized, a ghost)
TerminalSessionNew(alias) ==
    [profile_alias |-> alias, state |-> Starting, client_count |-> 0,
     size |-> InitialSize, resized |-> None,
     input |-> <<>>, pc |-> "new", child |-> "none", tty |-> {}]

is_terminated(s) == s.state.tag = "Terminated"

\* TerminalInput, TerminalOutput
Signal(sig) == [kind |-> "Signal", sig |-> sig]
Resize(cols, rows) == [kind |-> "Resize", cols |-> cols, rows |-> rows]
Data(bytes) == [kind |-> "Data", data |-> bytes]
StateChanged(state) == [kind |-> "StateChanged", data |-> state]

\* send_input: input_tx.send waits while the channel is full, and fails, which
\* every caller but the WebSocket data path ignores, once the receiver is gone
can_send(ss, id) == ss[id].pc = "done" \/ Len(ss[id].input) < MaxInput
\* a send_input that leaves a Resize to the writer task
send_input_queue_only(ss, id, input) ==
    IF ss[id].pc = "done" THEN ss ELSE [ss EXCEPT ![id].input = Append(@, input)]
\* send_input: a Resize is written to size first, then the input is sent
send_input(ss, id, input) ==
    LET sized == IF input.kind = "Resize"
                 THEN [ss EXCEPT ![id].size = [cols |-> input.cols, rows |-> input.rows]]
                 ELSE ss
    IN IF ss[id].pc = "done" THEN sized ELSE [sized EXCEPT ![id].input = Append(@, input)]

\* TerminalSession::info
info(ss, id) ==
    [profile_alias |-> ss[id].profile_alias, state |-> ss[id].state,
     cols |-> ss[id].size.cols, rows |-> ss[id].size.rows,
     client_count |-> ss[id].client_count]

\* an append_scrollback that trims at the wrong end
append_scrollback_keeps_oldest(sb, data) ==
    LET all == sb \o data IN
    IF Len(all) > MaxScrollback THEN SubSeq(all, 1, MaxScrollback) ELSE all
\* append_scrollback: push the bytes, then pop from the front down to the limit
append_scrollback(sb, data) ==
    LET all == sb \o data IN
    IF Len(all) > MaxScrollback
    THEN SubSeq(all, Len(all) - MaxScrollback + 1, Len(all))
    ELSE all

\* broadcast::Sender::send: every subscribed receiver gets the value; a
\* receiver that is a full channel behind loses its oldest value and lags
Publish(cl, id, out) ==
    [c \in Clients |->
        IF cl[c].pc = "live" /\ cl[c].sid = id
        THEN IF Len(cl[c].rx) < BroadcastCap
             THEN [cl[c] EXCEPT !.rx = Append(@, out)]
             ELSE [cl[c] EXCEPT !.rx = Append(Tail(@), out), !.lagged = TRUE]
        ELSE cl[c]]

\* set_state: overwrite the state, whatever it was
set_state(ss, id, state) == [ss EXCEPT ![id].state = state]

ClientIdle == [pc |-> "closed", sid |-> 0, rx |-> <<>>, lagged |-> FALSE,
               frames |-> <<>>, snap |-> <<>>, attachAt |-> 0]
ReaderOff == [pc |-> "off", data |-> <<>>, produced |-> 0]

\* TerminalSessionManager::new
InitPty ==
    /\ sess = <<>>
    /\ sessions = {}
    /\ profile_sessions = EmptyMap
    /\ ptask = [t \in TaskIds |-> [op |-> "none", pc |-> "idle", alias |-> 0, sid |-> 0]]

InitAttach ==
    /\ scrollback = [s \in SessionIds |-> <<>>]
    /\ sbchan = [s \in SessionIds |-> <<>>]
    /\ reader = [s \in SessionIds |-> ReaderOff]
    /\ client = [c \in Clients |-> ClientIdle]

----------------------------------------------------------------------------
(* terminal/pty_bridge.rs: spawn_pty_session and the tasks it starts *)

\* the task create_session spawns: open the PTY and spawn the command; on an
\* error the session is marked Terminated and the input receiver is dropped
PtySpawn(s) ==
    /\ s \in DOMAIN sess
    /\ sess[s].pc = "spawn"
    /\ \/ /\ sess' = [sess EXCEPT ![s].child = "alive", ![s].pc = "set_running"]
          /\ UNCHANGED client
       \/ /\ sess' = [set_state(sess, s, Terminated(None)) EXCEPT
                        ![s].pc = "done", ![s].input = <<>>]
          /\ client' = Publish(client, s, StateChanged(Terminated(None)))
    /\ UNCHANGED <<sessions, profile_sessions, ptask, scrollback, sbchan, reader>>
    /\ UNCHANGED <<allocVars, proxyVars, daemonVars, usageVars, telemetryVars, profileVars, restVars>>

\* "Mark session as running"
PtySetRunning(s) ==
    /\ s \in DOMAIN sess
    /\ sess[s].pc = "set_running"
    /\ sess' = [set_state(sess, s, Running) EXCEPT ![s].pc = "bridge"]
    /\ client' = Publish(client, s, StateChanged(Running))
    /\ UNCHANGED <<sessions, profile_sessions, ptask, scrollback, sbchan, reader>>
    /\ UNCHANGED <<allocVars, proxyVars, daemonVars, usageVars, telemetryVars, profileVars, restVars>>

\* clone the reader, take the writer, start the scrollback, reader and writer
\* tasks; if the clone or the take fails the call returns the error, the
\* session is marked Terminated, and the child it spawned is left alone
PtyBridge(s) ==
    /\ s \in DOMAIN sess
    /\ sess[s].pc = "bridge"
    /\ \/ /\ sess' = [sess EXCEPT ![s].pc = "wait"]
          /\ reader' = [reader EXCEPT ![s].pc = "read"]
          /\ UNCHANGED client
       \/ /\ sess' = [set_state(sess, s, Terminated(None)) EXCEPT
                        ![s].pc = "done", ![s].input = <<>>]
          /\ client' = Publish(client, s, StateChanged(Terminated(None)))
          /\ UNCHANGED reader
    /\ UNCHANGED <<sessions, profile_sessions, ptask, scrollback, sbchan>>
    /\ UNCHANGED <<allocVars, proxyVars, daemonVars, usageVars, telemetryVars, profileVars, restVars>>

\* the reader thread: read up to MaxRead bytes, try_send them to the
\* scrollback channel (dropped when it is full or closed)
ReaderRead(s) ==
    /\ reader[s].pc = "read"
    /\ \E n \in 1..MaxRead :
          /\ reader[s].produced + n <= MaxOutput
          /\ LET data == [i \in 1..n |-> reader[s].produced + i] IN
             /\ reader' = [reader EXCEPT ![s] =
                   [pc |-> "send", data |-> data, produced |-> reader[s].produced + n]]
             /\ sbchan' = IF sess[s].pc = "wait" /\ Len(sbchan[s]) < ScrollbackChanCap
                          THEN [sbchan EXCEPT ![s] = Append(@, data)]
                          ELSE sbchan
    /\ UNCHANGED <<ptyVars, scrollback, client>>
    /\ UNCHANGED <<allocVars, proxyVars, daemonVars, usageVars, telemetryVars, profileVars, restVars>>

\* the reader thread: broadcast the bytes just read
ReaderSend(s) ==
    /\ reader[s].pc = "send"
    /\ client' = Publish(client, s, Data(reader[s].data))
    /\ reader' = [reader EXCEPT ![s].pc = "read", ![s].data = <<>>]
    /\ UNCHANGED <<ptyVars, scrollback, sbchan>>
    /\ UNCHANGED <<allocVars, proxyVars, daemonVars, usageVars, telemetryVars, profileVars, restVars>>

\* the reader thread: read returns 0 once the child is gone
ReaderEof(s) ==
    /\ reader[s].pc = "read"
    /\ sess[s].child \in {"exit_ok", "exit_err"}
    /\ reader' = [reader EXCEPT ![s].pc = "eof"]
    /\ UNCHANGED <<ptyVars, scrollback, sbchan, client>>
    /\ UNCHANGED <<allocVars, proxyVars, daemonVars, usageVars, telemetryVars, profileVars, restVars>>

\* the scrollback task: recv one chunk and append it
ScrollbackAppend(s) ==
    /\ s \in DOMAIN sess
    /\ sess[s].pc = "wait"
    /\ sbchan[s] # <<>>
    /\ scrollback' = [scrollback EXCEPT ![s] = append_scrollback(@, Head(sbchan[s]))]
    /\ sbchan' = [sbchan EXCEPT ![s] = Tail(@)]
    /\ UNCHANGED <<ptyVars, reader, client>>
    /\ UNCHANGED <<allocVars, proxyVars, daemonVars, usageVars, telemetryVars, profileVars, restVars>>

\* the writer task, TerminalInput::Signal: the control character written for
\* the signal, if any
ctrl_char(sig) ==
    CASE sig = 2 -> Some(3)
      [] sig = 3 -> Some(28)
      [] OTHER -> None

\* the writer task: recv one input and write it to the PTY
WriterRecv(s) ==
    /\ s \in DOMAIN sess
    /\ sess[s].pc = "wait"
    /\ sess[s].input # <<>>
    /\ LET input == Head(sess[s].input)
           c == IF input.kind = "Signal" THEN ctrl_char(input.sig) ELSE None
       IN sess' = [sess EXCEPT ![s].input = Tail(@),
                               ![s].tty = IF IsSome(c) THEN @ \cup {Unwrap(c)} ELSE @]
    /\ UNCHANGED <<sessions, profile_sessions, ptask, attachVars>>
    /\ UNCHANGED <<allocVars, proxyVars, daemonVars, usageVars, telemetryVars, profileVars, restVars>>

\* the child process exits, with success or not
ChildExit(s) ==
    /\ s \in DOMAIN sess
    /\ sess[s].child = "alive"
    /\ \E how \in {"exit_ok", "exit_err"} : sess' = [sess EXCEPT ![s].child = how]
    /\ UNCHANGED <<sessions, profile_sessions, ptask, attachVars>>
    /\ UNCHANGED <<allocVars, proxyVars, daemonVars, usageVars, telemetryVars, profileVars, restVars>>

\* the exit code the wait reports
exit_code_of(child) == IF child = "exit_ok" THEN Some(0) ELSE None

\* child.wait() returns: mark the session Terminated, abort the tasks
PtyWait(s) ==
    /\ s \in DOMAIN sess
    /\ sess[s].pc = "wait"
    /\ sess[s].child \in {"exit_ok", "exit_err"}
    /\ sess' = [set_state(sess, s, Terminated(exit_code_of(sess[s].child))) EXCEPT
                  ![s].pc = "done", ![s].input = <<>>]
    /\ client' = Publish(client, s, StateChanged(Terminated(exit_code_of(sess[s].child))))
    /\ sbchan' = [sbchan EXCEPT ![s] = <<>>]
    /\ UNCHANGED <<sessions, profile_sessions, ptask, scrollback, reader>>
    /\ UNCHANGED <<allocVars, proxyVars, daemonVars, usageVars, telemetryVars, profileVars, restVars>>

----------------------------------------------------------------------------
(* terminal/manager.rs: TerminalSessionManager *)

PtyIdle == [op |-> "none", pc |-> "idle", alias |-> 0, sid |-> 0]

\* the create_session calls that have not stored their session yet
PendingCreates == Cardinality({t \in TaskIds : ptask[t].pc \in {"c_check", "c_store"}})

\* a request arrives: POST /terminal/sessions
CallCreate(t) ==
    /\ ptask[t].pc = "idle"
    /\ Len(sess) + PendingCreates < MaxSessions
    /\ \E a \in Aliases :
          ptask' = [ptask EXCEPT ![t] =
                [PtyIdle EXCEPT !.op = "create", !.alias = a, !.pc = "c_check"]]
    /\ UNCHANGED <<sess, sessions, profile_sessions, attachVars>>
    /\ UNCHANGED <<allocVars, proxyVars, daemonVars, usageVars, telemetryVars, profileVars, restVars>>

\* DELETE /terminal/sessions/{id}
CallTerminate(t) ==
    /\ ptask[t].pc = "idle"
    /\ \E id \in SessionIds :
          ptask' = [ptask EXCEPT ![t] =
                [PtyIdle EXCEPT !.op = "terminate", !.sid = id, !.pc = "t_get"]]
    /\ UNCHANGED <<sess, sessions, profile_sessions, attachVars>>
    /\ UNCHANGED <<allocVars, proxyVars, daemonVars, usageVars, telemetryVars, profileVars, restVars>>

\* POST /terminal/cleanup
CallCleanup(t) ==
    /\ ptask[t].pc = "idle"
    /\ ptask' = [ptask EXCEPT ![t] = [PtyIdle EXCEPT !.op = "cleanup", !.pc = "g_cleanup"]]
    /\ UNCHANGED <<sess, sessions, profile_sessions, attachVars>>
    /\ UNCHANGED <<allocVars, proxyVars, daemonVars, usageVars, telemetryVars, profileVars, restVars>>

\* create_session, "Check if there's already an active session for this profile"
has_active_session(index, tracked, ss, alias) ==
    /\ alias \in DOMAIN index
    /\ index[alias] \in tracked
    /\ ~is_terminated(ss[index[alias]])

CreateCheck(t) ==
    /\ ptask[t].pc = "c_check"
    /\ ptask' = [ptask EXCEPT ![t] =
          IF has_active_session(profile_sessions, sessions, sess, ptask[t].alias)
          THEN PtyIdle
          ELSE [@ EXCEPT !.pc = "c_store"]]
    /\ UNCHANGED <<sess, sessions, profile_sessions, attachVars>>
    /\ UNCHANGED <<allocVars, proxyVars, daemonVars, usageVars, telemetryVars, profileVars, restVars>>

\* create_session, "Store the session": a fresh id, sessions.insert
CreateStore(t) ==
    /\ ptask[t].pc = "c_store"
    /\ sess' = Append(sess, TerminalSessionNew(ptask[t].alias))
    /\ sessions' = sessions \cup {Len(sess) + 1}
    /\ ptask' = [ptask EXCEPT ![t] = [@ EXCEPT !.pc = "c_index", !.sid = Len(sess) + 1]]
    /\ UNCHANGED <<profile_sessions, attachVars>>
    /\ UNCHANGED <<allocVars, proxyVars, daemonVars, usageVars, telemetryVars, profileVars, restVars>>

\* create_session: profile_sessions.insert, then spawn the PTY task and return
CreateIndex(t) ==
    /\ ptask[t].pc = "c_index"
    /\ profile_sessions' = MapInsert(profile_sessions, ptask[t].alias, ptask[t].sid)
    /\ sess' = [sess EXCEPT ![ptask[t].sid].pc = "spawn"]
    /\ ptask' = [ptask EXCEPT ![t] = PtyIdle]
    /\ UNCHANGED <<sessions, attachVars>>
    /\ UNCHANGED <<allocVars, proxyVars, daemonVars, usageVars, telemetryVars, profileVars, restVars>>

\* terminate_session: get_session, then "Send SIGTERM equivalent"
TerminateSignal(t) ==
    /\ ptask[t].pc = "t_get"
    /\ IF ptask[t].sid \in sessions
       THEN /\ can_send(sess, ptask[t].sid)
            /\ sess' = send_input(sess, ptask[t].sid, Signal(15))
            /\ ptask' = [ptask EXCEPT ![t] = [@ EXCEPT !.pc = "t_set"]]
       ELSE /\ ptask' = [ptask EXCEPT ![t] = PtyIdle]
            /\ UNCHANGED sess
    /\ UNCHANGED <<sessions, profile_sessions, attachVars>>
    /\ UNCHANGED <<allocVars, proxyVars, daemonVars, usageVars, telemetryVars, profileVars, restVars>>

\* terminate_session, "Mark as terminated"
TerminateSet(t) ==
    /\ ptask[t].pc = "t_set"
    /\ sess' = set_state(sess, ptask[t].sid, Terminated(None))
    /\ client' = Publish(client, ptask[t].sid, StateChanged(Terminated(None)))
    /\ ptask' = [ptask EXCEPT ![t] = PtyIdle]
    /\ UNCHANGED <<sessions, profile_sessions, scrollback, sbchan, reader>>
    /\ UNCHANGED <<allocVars, proxyVars, daemonVars, usageVars, telemetryVars, profileVars, restVars>>

\* cleanup_terminated: what is left of the two maps
cleanup_sessions(tracked, ss) == {id \in tracked : ~is_terminated(ss[id])}
cleanup_index(index, tracked, ss) ==
    LET gone == {id \in tracked : is_terminated(ss[id])}
        keep == {a \in DOMAIN index :
                    ~\E id \in gone : ss[id].profile_alias = a /\ index[a] = id}
    IN [a \in keep |-> index[a]]

\* cleanup_terminated, under the write locks of both maps
CleanupTerminated(t) ==
    /\ ptask[t].pc = "g_cleanup"
    /\ sessions' = cleanup_sessions(sessions, sess)
    /\ profile_sessions' = cleanup_index(profile_sessions, sessions, sess)
    /\ ptask' = [ptask EXCEPT ![t] = PtyIdle]
    /\ UNCHANGED <<sess, attachVars>>
    /\ UNCHANGED <<allocVars, proxyVars, daemonVars, usageVars, telemetryVars, profileVars, restVars>>

\* terminate_all: every tracked session that is not terminated is sent
\* Signal(15) and marked Terminated
terminate_all(tracked, ss) ==
    [id \in DOMAIN ss |->
        IF id \in tracked /\ ~is_terminated(ss[id])
        THEN set_state(send_input(ss, id, Signal(15)), id, Terminated(None))[id]
        ELSE ss[id]]

NextPty ==
    \/ \E t \in TaskIds : CallCreate(t)
    \/ \E t \in TaskIds : CallTerminate(t)
    \/ \E t \in TaskIds : CallCleanup(t)
    \/ \E t \in TaskIds : CreateCheck(t)
    \/ \E t \in TaskIds : CreateStore(t)
    \/ \E t \in TaskIds : CreateIndex(t)
    \/ \E t \in TaskIds : TerminateSignal(t)
    \/ \E t \in TaskIds : TerminateSet(t)
    \/ \E t \in TaskIds : CleanupTerminated(t)
    \/ \E s \in SessionIds : PtySpawn(s)
    \/ \E s \in SessionIds : PtySetRunning(s)
    \/ \E s \in SessionIds : PtyBridge(s)
    \/ \E s \in SessionIds : WriterRecv(s)
    \/ \E s \in SessionIds : ChildExit(s)
    \/ \E s \in SessionIds : PtyWait(s)

----------------------------------------------------------------------------
(* http/terminal_ws.rs: handle_terminal_socket.  frames is what the handler *)
(* has sent to its client; snap and attachAt are ghosts: the scrollback the *)
(* handler read, and the number of bytes read from the PTY at that moment.  *)

Text(what) == [kind |-> "text", data |-> what]
Binary(bytes) == [kind |-> "binary", data |-> bytes]

\* get_session, the is_terminated check, add_client, and the Connected message
WsConnect(c) ==
    /\ client[c].pc = "closed"
    /\ \E id \in sessions :
          /\ ~is_terminated(sess[id])
          /\ sess' = [sess EXCEPT ![id].client_count = @ + 1]
          /\ client' = [client EXCEPT ![c] =
                [ClientIdle EXCEPT !.pc = "connected", !.sid = id,
                                   !.frames = <<Text("connected")>>]]
    /\ UNCHANGED <<sessions, profile_sessions, ptask, scrollback, sbchan, reader>>
    /\ UNCHANGED <<allocVars, proxyVars, daemonVars, usageVars, telemetryVars, profileVars, restVars>>

\* "Send scrollback buffer": get_scrollback
WsSnapshot(c) ==
    /\ client[c].pc = "connected"
    /\ client' = [client EXCEPT ![c] =
          [@ EXCEPT !.pc = "snapshot", !.snap = scrollback[client[c].sid],
                    !.attachAt = reader[client[c].sid].produced]]
    /\ UNCHANGED <<ptyVars, scrollback, sbchan, reader>>
    /\ UNCHANGED <<allocVars, proxyVars, daemonVars, usageVars, telemetryVars, profileVars, restVars>>

\* a plausible slip: the replay starts one byte late
replay_frames_short(sb) == IF Len(sb) <= 1 THEN <<>> ELSE <<Binary(Tail(sb))>>

\* the frames that replay a scrollback: one binary frame, none if it is empty
replay_frames(sb) == IF sb = <<>> THEN <<>> ELSE <<Binary(sb)>>

\* the replay frame is sent, then "Subscribe to terminal output"
WsReplay(c) ==
    /\ client[c].pc = "snapshot"
    /\ client' = [client EXCEPT ![c] =
          [@ EXCEPT !.pc = "live", !.frames = @ \o replay_frames(client[c].snap)]]
    /\ UNCHANGED <<ptyVars, scrollback, sbchan, reader>>
    /\ UNCHANGED <<allocVars, proxyVars, daemonVars, usageVars, telemetryVars, profileVars, restVars>>

\* the frame that forwards one TerminalOutput
output_frame(out) == IF out.kind = "Data" THEN Binary(out.data) ELSE Text(out.data.tag)

\* the select loop, output_rx.recv(): Lagged is logged, an output is forwarded
WsForward(c) ==
    /\ client[c].pc = "live"
    /\ IF client[c].lagged
       THEN client' = [client EXCEPT ![c].lagged = FALSE]
       ELSE /\ client[c].rx # <<>>
            /\ client' = [client EXCEPT ![c] =
                  [@ EXCEPT !.rx = Tail(@),
                            !.frames = Append(@, output_frame(Head(client[c].rx)))]]
    /\ UNCHANGED <<ptyVars, scrollback, sbchan, reader>>
    /\ UNCHANGED <<allocVars, proxyVars, daemonVars, usageVars, telemetryVars, profileVars, restVars>>

\* the select loop, receiver.next(): a Signal control message from the client
WsSignal(c) ==
    /\ client[c].pc = "live"
    /\ can_send(sess, client[c].sid)
    /\ \E sig \in {2, 15} : sess' = send_input(sess, client[c].sid, Signal(sig))
    /\ UNCHANGED <<sessions, profile_sessions, ptask, attachVars>>
    /\ UNCHANGED <<allocVars, proxyVars, daemonVars, usageVars, telemetryVars, profileVars, restVars>>

\* the select loop, receiver.next(): a Resize control message from the client
WsResize(c) ==
    /\ client[c].pc = "live"
    /\ can_send(sess, client[c].sid)
    /\ \E size \in Sizes :
          sess' = [send_input(sess, client[c].sid, Resize(size.cols, size.rows))
                      EXCEPT ![client[c].sid].resized = Some(size)]
    /\ UNCHANGED <<sessions, profile_sessions, ptask, attachVars>>
    /\ UNCHANGED <<allocVars, proxyVars, daemonVars, usageVars, telemetryVars, profileVars, restVars>>

\* the client closes, or a send to it fails: remove_client and return
WsClose(c) ==
    /\ client[c].pc # "closed"
    /\ sess' = [sess EXCEPT ![client[c].sid].client_count = IF @ > 0 THEN @ - 1 ELSE @]
    /\ client' = [client EXCEPT ![c] = ClientIdle]
    /\ UNCHANGED <<sessions, profile_sessions, ptask, scrollback, sbchan, reader>>
    /\ UNCHANGED <<allocVars, proxyVars, daemonVars, usageVars, telemetryVars, profileVars, restVars>>

NextAttach ==
    \/ Len(sess) = 0 /\ CallCreate(1)
    \/ CreateCheck(1)
    \/ CreateStore(1)
    \/ CreateIndex(1)
    \/ \E s \in SessionIds : PtySpawn(s)
    \/ \E s \in SessionIds : PtySetRunning(s)
    \/ \E s \in SessionIds : PtyBridge(s)
    \/ \E s \in SessionIds : ReaderRead(s)
    \/ \E s \in SessionIds : ReaderSend(s)
    \/ \E s \in SessionIds : ReaderEof(s)
    \/ \E s \in SessionIds : ScrollbackAppend(s)
    \/ \E s \in SessionIds : WriterRecv(s)
    \/ \E s \in SessionIds : ChildExit(s)
    \/ \E s \in SessionIds : PtyWait(s)
    \/ \E c \in Clients : WsConnect(c)
    \/ \E c \in Clients : WsSnapshot(c)
    \/ \E c \in Clients : WsReplay(c)
    \/ \E c \in Clients : WsForward(c)
    \/ \E c \in Clients : WsSignal(c)
    \/ \E c \in Clients : WsClose(c)

\* a session whose child writes nothing, and a client that resizes it
NextResize ==
    \/ Len(sess) = 0 /\ CallCreate(1)
    \/ CreateCheck(1)
    \/ CreateStore(1)
    \/ CreateIndex(1)
    \/ \E s \in SessionIds : PtySpawn(s)
    \/ \E s \in SessionIds : PtySetRunning(s)
    \/ \E s \in SessionIds : PtyBridge(s)
    \/ \E s \in SessionIds : WriterRecv(s)
    \/ \E s \in SessionIds : ChildExit(s)
    \/ \E s \in SessionIds : PtyWait(s)
    \/ \E c \in Clients : WsConnect(c)
    \/ \E c \in Clients : WsSnapshot(c)
    \/ \E c \in Clients : WsReplay(c)
    \/ \E c \in Clients : WsForward(c)
    \/ \E c \in Clients : WsSignal(c)
    \/ \E c \in Clients : WsResize(c)
    \/ \E c \in Clients : WsClose(c)

----------------------------------------------------------------------------
(* ringletd/main.rs, clownd/server.rs, ringletd/http/server.rs: the daemon. *)
(* Time is counted in ticks: clock.idle is last_activity.elapsed(), capped   *)
(* just above the timeout, clock.until is what is left of the watchdog's     *)
(* sleep.  The first state is the one main has reached when it calls         *)
(* server::run: PID and endpoint files written, HTTP task spawned.           *)

\* config.daemon.idle_timeout_secs, in ticks
IdleTimeout == 1
\* the watchdog's sleep (10 s), in ticks
WatchdogPeriod == 2

INTERNAL_ERROR == 9999
AGENT_NOT_FOUND == 1001

\* what a client may put on the IPC socket: bytes that are no Request, the
\* Shutdown request, another request
Messages == {"garbage", "Shutdown", "Ping"}

\* serde_json::from_slice::<Request>
parse_request(msg) == IF msg \in {"Shutdown", "Ping"} THEN Some(msg) ELSE None

\* Response::success, Response::error
Success == [kind |-> "Success", code |-> 0]
Error(code) == [kind |-> "Error", code |-> code]

\* a plausible slip: the HTTP task is signalled but not awaited
after_without_await(pc) ==
    CASE pc = "http_signal" -> "terminate_all"
      [] pc = "http_await" -> "terminate_all"
      [] pc = "terminate_all" -> "stop_all"
      [] pc = "stop_all" -> "cleanup"
      [] pc = "cleanup" -> "returned"

\* the steps of main after server::run has returned, in program order
after(pc) ==
    CASE pc = "http_signal" -> "http_await"
      [] pc = "http_await" -> "terminate_all"
      [] pc = "terminate_all" -> "stop_all"
      [] pc = "stop_all" -> "cleanup"
      [] pc = "cleanup" -> "returned"

InitDaemon ==
    /\ main = [pc |-> "run_start", result |-> "none", cause |-> "none"]
    /\ idle_timeout = None
    /\ shutdown_flag = FALSE
    /\ watchdog = "none"
    /\ clock = [idle |-> 0, until |-> 0]
    /\ ipc = [req |-> None, cur |-> None, replies |-> 0, resp |-> None,
              missed |-> FALSE, garbage_seen |-> FALSE]
    /\ chan = [shutdown_tx |-> TRUE, nng_shutdown |-> FALSE, http_shutdown |-> FALSE]
    /\ http = "starting"
    /\ files = {"pid", "endpoint"}
    /\ shutdownLog = <<>>

\* server::run is called with the idle timeout of the configuration, or None
\* with --stay-alive; up to the request loop: listen creates the socket file, the
\* watchdog is spawned if a timeout is configured; an error here is returned
RunStart ==
    /\ main.pc = "run_start"
    /\ idle_timeout' \in {None, Some(IdleTimeout)}
    /\ \/ /\ main' = [main EXCEPT !.pc = "loop"]
          /\ files' = files \cup {"socket"}
          /\ watchdog' = IF IsSome(idle_timeout') THEN "sleeping" ELSE "none"
          /\ clock' = [clock EXCEPT !.until = WatchdogPeriod]
       \/ /\ main' = [pc |-> "http_signal", result |-> "err", cause |-> "listen"]
          /\ UNCHANGED <<files, watchdog, clock>>
    /\ UNCHANGED <<shutdown_flag, ipc, chan, http, shutdownLog>>
    /\ UNCHANGED <<allocVars, proxyVars, ptyVars, attachVars, usageVars, telemetryVars, profileVars, restVars>>

\* the watchdog's test
idle_exceeded(idle, timeout) == idle > timeout

\* the watchdog wakes up and samples idle_duration
WatchdogSample ==
    /\ watchdog = "sleeping"
    /\ clock.until = 0
    /\ main.pc # "exited"
    /\ IF idle_exceeded(clock.idle, Unwrap(idle_timeout))
       THEN /\ shutdown_flag' = TRUE
            /\ watchdog' = "done"
            /\ UNCHANGED clock
       ELSE /\ clock' = [clock EXCEPT !.until = WatchdogPeriod]
            /\ UNCHANGED <<shutdown_flag, watchdog>>
    /\ UNCHANGED <<main, idle_timeout, ipc, chan, http, files, shutdownLog>>
    /\ UNCHANGED <<allocVars, proxyVars, ptyVars, attachVars, usageVars, telemetryVars, profileVars, restVars>>

\* one tick of time; the watchdog does not oversleep
Tick ==
    /\ main.pc # "exited"
    /\ watchdog = "sleeping" => clock.until > 0
    /\ clock' = [idle |-> IF clock.idle > IdleTimeout THEN clock.idle ELSE clock.idle + 1,
                 until |-> IF watchdog = "sleeping" THEN clock.until - 1 ELSE clock.until]
    /\ clock' # clock
    /\ UNCHANGED <<main, idle_timeout, shutdown_flag, watchdog, ipc, chan, http, files,
                   shutdownLog>>
    /\ UNCHANGED <<allocVars, proxyVars, ptyVars, attachVars, usageVars, telemetryVars, profileVars, restVars>>

\* a client sends a message on the IPC socket
IpcSend ==
    /\ main.pc \in {"loop", "recv", "handle"}
    /\ ipc.req = None
    /\ \E msg \in Messages : ipc' = [ipc EXCEPT !.req = Some(msg)]
    /\ UNCHANGED <<main, idle_timeout, shutdown_flag, watchdog, clock, chan, http, files,
                   shutdownLog>>
    /\ UNCHANGED <<allocVars, proxyVars, ptyVars, attachVars, usageVars, telemetryVars, profileVars, restVars>>

\* the top of the request loop: the idle flag or the external signal ends it
loop_break(flag, signalled) == flag \/ signalled

LoopTop ==
    /\ main.pc = "loop"
    /\ IF loop_break(shutdown_flag, chan.nng_shutdown)
       THEN /\ main' = [pc |-> "http_signal", result |-> "ok",
                        cause |-> IF shutdown_flag THEN "idle" ELSE "signal"]
            /\ chan' = IF shutdown_flag THEN chan ELSE [chan EXCEPT !.nng_shutdown = FALSE]
       ELSE /\ main' = [main EXCEPT !.pc = "recv"]
            /\ UNCHANGED chan
    /\ UNCHANGED <<idle_timeout, shutdown_flag, watchdog, clock, ipc, http, files, shutdownLog>>
    /\ UNCHANGED <<allocVars, proxyVars, ptyVars, attachVars, usageVars, telemetryVars, profileVars, restVars>>

\* send_response: one more response to the message being handled
send_response(i, response) == [i EXCEPT !.replies = @ + 1, !.resp = Some(response)]

\* a plausible slip: the message that does not parse gets no response
reply_parse_error_none(i) == i

\* the response to a message that does not parse
reply_parse_error(i) == send_response(i, Error(INTERNAL_ERROR))

\* recv_with_timeout returns a message: touch, parse; a message that does not
\* parse and the Shutdown request are answered here
received(i, msg) ==
    [i EXCEPT !.req = None, !.cur = Some(msg), !.replies = 0,
              !.missed = @ \/ (IsSome(i.cur) /\ i.replies # 1),
              !.garbage_seen = @ \/ (IsSome(i.cur) /\ parse_request(Unwrap(i.cur)) = None)]

Recv ==
    /\ main.pc = "recv"
    /\ IF IsSome(ipc.req)
       THEN LET msg == Unwrap(ipc.req)
                got == received(ipc, msg)
            IN /\ clock' = [clock EXCEPT !.idle = 0]
               /\ IF parse_request(msg) = None
                  THEN /\ ipc' = reply_parse_error(got)
                       /\ main' = [main EXCEPT !.pc = "loop"]
                  ELSE IF Unwrap(parse_request(msg)) = "Shutdown"
                  THEN /\ ipc' = send_response(got, Success)
                       /\ main' = [pc |-> "http_signal", result |-> "ok", cause |-> "request"]
                  ELSE /\ ipc' = got
                       /\ main' = [main EXCEPT !.pc = "handle"]
       ELSE /\ main' = [main EXCEPT !.pc = "loop"]
            /\ UNCHANGED <<clock, ipc>>
    /\ UNCHANGED <<idle_timeout, shutdown_flag, watchdog, chan, http, files, shutdownLog>>
    /\ UNCHANGED <<allocVars, proxyVars, ptyVars, attachVars, usageVars, telemetryVars, profileVars, restVars>>

\* handlers::handle_request returns its response, and it is sent
Handle ==
    /\ main.pc = "handle"
    /\ \E response \in {Success, Error(AGENT_NOT_FOUND)} :
          ipc' = send_response(ipc, response)
    /\ main' = [main EXCEPT !.pc = "loop"]
    /\ UNCHANGED <<idle_timeout, shutdown_flag, watchdog, clock, chan, http, files,
                   shutdownLog>>
    /\ UNCHANGED <<allocVars, proxyVars, ptyVars, attachVars, usageVars, telemetryVars, profileVars, restVars>>

\* run_http_server: bind, or give up
HttpBind ==
    /\ http = "starting"
    /\ main.pc # "exited"
    /\ http' \in {"serving", "done"}
    /\ UNCHANGED <<main, idle_timeout, shutdown_flag, watchdog, clock, ipc, chan, files,
                   shutdownLog>>
    /\ UNCHANGED <<allocVars, proxyVars, ptyVars, attachVars, usageVars, telemetryVars, profileVars, restVars>>

\* POST /api/shutdown: take shutdown_tx and send
HttpShutdownRequest ==
    /\ http = "serving"
    /\ ~chan.http_shutdown
    /\ chan.shutdown_tx
    /\ chan' = [chan EXCEPT !.shutdown_tx = FALSE, !.nng_shutdown = TRUE]
    /\ UNCHANGED <<main, idle_timeout, shutdown_flag, watchdog, clock, ipc, http, files,
                   shutdownLog>>
    /\ UNCHANGED <<allocVars, proxyVars, ptyVars, attachVars, usageVars, telemetryVars, profileVars, restVars>>

\* graceful shutdown: the signal has come and no request is in flight
HttpStop ==
    /\ http = "serving"
    /\ chan.http_shutdown
    /\ \A t \in TaskIds : ptask[t].pc = "idle"
    /\ http' = "done"
    /\ UNCHANGED <<main, idle_timeout, shutdown_flag, watchdog, clock, ipc, chan, files,
                   shutdownLog>>
    /\ UNCHANGED <<allocVars, proxyVars, ptyVars, attachVars, usageVars, telemetryVars, profileVars, restVars>>

\* main, "Signal HTTP server to shut down"
HttpSignal ==
    /\ main.pc = "http_signal"
    /\ chan' = [chan EXCEPT !.http_shutdown = TRUE]
    /\ main' = [main EXCEPT !.pc = after(main.pc)]
    /\ shutdownLog' = Append(shutdownLog, "http_signal")
    /\ UNCHANGED <<idle_timeout, shutdown_flag, watchdog, clock, ipc, http, files>>
    /\ UNCHANGED <<allocVars, proxyVars, ptyVars, attachVars, usageVars, telemetryVars, profileVars, restVars>>

\* main, "Wait for HTTP server to finish"
HttpAwait ==
    /\ main.pc = "http_await"
    /\ http = "done"
    /\ main' = [main EXCEPT !.pc = after(main.pc)]
    /\ shutdownLog' = Append(shutdownLog, "http_done")
    /\ UNCHANGED <<idle_timeout, shutdown_flag, watchdog, clock, ipc, chan, http, files>>
    /\ UNCHANGED <<allocVars, proxyVars, ptyVars, attachVars, usageVars, telemetryVars, profileVars, restVars>>

\* what terminate_all broadcasts: StateChanged to the subscribers of every
\* session it marks
publish_terminated(cl, tracked, ss) ==
    [c \in Clients |->
        IF cl[c].pc = "live" /\ cl[c].sid \in tracked /\ ~is_terminated(ss[cl[c].sid])
        THEN Publish(cl, cl[c].sid, StateChanged(Terminated(None)))[c]
        ELSE cl[c]]

\* main, "Terminate all terminal sessions gracefully"
TerminateAll ==
    /\ main.pc = "terminate_all"
    /\ \A id \in sessions : is_terminated(sess[id]) \/ can_send(sess, id)
    /\ sess' = terminate_all(sessions, sess)
    /\ client' = publish_terminated(client, sessions, sess)
    /\ main' = [main EXCEPT !.pc = after(main.pc)]
    /\ shutdownLog' = Append(shutdownLog, "terminate_all")
    /\ UNCHANGED <<idle_timeout, shutdown_flag, watchdog, clock, ipc, chan, http, files>>
    /\ UNCHANGED <<sessions, profile_sessions, ptask, scrollback, sbchan, reader>>
    /\ UNCHANGED <<allocVars, proxyVars, usageVars, telemetryVars, profileVars, restVars>>

\* stop_all, with nobody else using the supervisor: every tracked instance is
\* removed, its process has exited or been killed, its port is released
stop_all_procs(inst, ps) ==
    [pid \in DOMAIN ps |->
        IF \E a \in DOMAIN inst : inst[a].pid = pid THEN Exited ELSE ps[pid]]
stop_all_ports(inst, alloc) ==
    [allocated |-> {p \in alloc.allocated :
                       ~\E a \in DOMAIN inst : a \in DOMAIN alloc.assignments
                                               /\ alloc.assignments[a] = p},
     assignments |-> [a \in DOMAIN alloc.assignments \ DOMAIN inst |-> alloc.assignments[a]]]

\* main, "Stop all proxy instances gracefully"
StopAll ==
    /\ main.pc = "stop_all"
    /\ instLock = 0
    /\ procs' = stop_all_procs(instances, procs)
    /\ port_allocator' = stop_all_ports(instances, port_allocator)
    /\ instances' = EmptyMap
    /\ main' = [main EXCEPT !.pc = after(main.pc)]
    /\ shutdownLog' = Append(shutdownLog, "stop_all")
    /\ UNCHANGED <<idle_timeout, shutdown_flag, watchdog, clock, ipc, chan, http, files>>
    /\ UNCHANGED <<allocLog, held, instLock, task>>
    /\ UNCHANGED <<ptyVars, attachVars, usageVars, telemetryVars, profileVars, restVars>>

\* main, "Cleanup": the three files are removed (an error of remove_file is
\* ignored by the code and not modelled), and main returns
RemoveFiles ==
    /\ main.pc = "cleanup"
    /\ files' = files \ {"pid", "endpoint", "socket"}
    /\ main' = [main EXCEPT !.pc = after(main.pc)]
    /\ shutdownLog' = Append(shutdownLog, "remove_files")
    /\ UNCHANGED <<idle_timeout, shutdown_flag, watchdog, clock, ipc, chan, http>>
    /\ UNCHANGED <<allocVars, proxyVars, ptyVars, attachVars, usageVars, telemetryVars, profileVars, restVars>>

\* the blocking tasks of a session, the reader's read and child.wait(), are
\* running: the bridge is set up and the child has not exited
blocking(s) == sess[s].pc = "wait" /\ sess[s].child = "alive"

\* #[tokio::main]: main has returned and the runtime is dropped; the drop
\* waits for every blocking task that is running, the other tasks are dropped
\* where they are, and the process exits
RuntimeDrop ==
    /\ main.pc = "returned"
    /\ \A s \in DOMAIN sess : ~blocking(s)
    /\ main' = [main EXCEPT !.pc = "exited"]
    /\ UNCHANGED <<idle_timeout, shutdown_flag, watchdog, clock, ipc, chan, http, files,
                   shutdownLog>>
    /\ UNCHANGED <<allocVars, proxyVars, ptyVars, attachVars, usageVars, telemetryVars, profileVars, restVars>>

----------------------------------------------------------------------------
(* usage_watcher.rs, agent_usage/mod.rs: the usage watcher.  A log file is a *)
(* sequence of characters: a line that holds an entry e is written as its    *)
(* two halves [e, 1] [e, 2], then the newline "nl".  A string is a sequence  *)
(* of atoms, so that a ":" inside an id is the same atom as a separator.     *)

\* characters appended to the watched files in all, truncations, events broadcast
MaxAppend == 6
MaxTrunc == 1
MaxEvents == 3

Paths == {"claude", "codex"}

\* what an agent may write as one line: a usage entry, or something else
ClaudeLines ==
    {[message_id |-> Some(<<"m1">>), request_id |-> r, tokens |-> k] :
        r \in {None, Some(<<"r1">>)}, k \in {1, 2}}
    \cup {[message_id |-> Some(<<"m1", ":", "r1">>), request_id |-> None, tokens |-> 1],
          [message_id |-> None, request_id |-> None, tokens |-> 1]}
CodexLines == {[type |-> "token_count", timestamp |-> "t1", tokens |-> 1]}
LinesOf(path) == IF path = "claude" THEN ClaudeLines ELSE CodexLines

\* the characters: the two halves of a line, and the newline
Half(e, n) == [e |-> e, half |-> n]
Newline == [e |-> 0, half |-> 0]
IsNewline(c) == c.half = 0

\* BufRead::lines: split at the newlines; what follows the last one is a line too
RECURSIVE lines(_)
lines(bytes) ==
    IF bytes = <<>> THEN <<>>
    ELSE IF \E i \in DOMAIN bytes : IsNewline(bytes[i])
    THEN LET i == CHOOSE j \in DOMAIN bytes :
                     IsNewline(bytes[j]) /\ \A k \in 1..(j - 1) : ~IsNewline(bytes[k])
         IN <<SubSeq(bytes, 1, i - 1)>> \o lines(SubSeq(bytes, i + 1, Len(bytes)))
    ELSE <<bytes>>

\* serde_json::from_str: only the two halves of one line, in order, parse
from_str(line) ==
    IF Len(line) = 2 /\ line[1].half = 1 /\ line[2].half = 2 /\ line[1].e = line[2].e
    THEN Some(line[1].e)
    ELSE None

\* parse_claude_line: an entry needs message.usage and messageId
parse_claude_line(line) ==
    LET json == from_str(line) IN
    IF IsSome(json) /\ IsSome(Unwrap(json).message_id)
    THEN Some([agent |-> "claude", message_id |-> Unwrap(Unwrap(json).message_id),
               request_id |-> Unwrap(json).request_id, tokens |-> Unwrap(json).tokens])
    ELSE None

\* parse_codex_line: the message id is made of the timestamp and seen_ids.len()
parse_codex_line(line, seen) ==
    LET json == from_str(line) IN
    IF IsSome(json) /\ Unwrap(json).type = "token_count"
    THEN Some([agent |-> "codex",
               message_id |-> <<"codex_", Unwrap(json).timestamp, "_",
                               ToString(Cardinality(seen))>>,
               request_id |-> None, tokens |-> Unwrap(json).tokens])
    ELSE None

parse_line(agent, line, seen) ==
    IF agent = "claude" THEN parse_claude_line(line) ELSE parse_codex_line(line, seen)

\* UsageEntry::dedup_key: "{agent}:{message_id}:{req_id}" or "{agent}:{message_id}"
dedup_key(entry) ==
    <<entry.agent, ":">> \o entry.message_id \o
        (IF IsSome(entry.request_id) THEN <<":">> \o Unwrap(entry.request_id) ELSE <<>>)

\* the key as the triple (agent_kind, message_id, request_id?)
KeyOf(entry) == <<entry.agent, entry.message_id, entry.request_id>>

\* a plausible slip: the key of an entry is not remembered
seen_after_forgetful(seen, key) == seen

\* seen_ids.insert
seen_after(seen, key) == seen \cup {key}

\* the loop over the lines read: r is [seen, entries, pos, dropped], where
\* dropped are the entries found to be duplicates
RECURSIVE read_lines(_, _, _)
read_lines(agent, ls, r) ==
    IF ls = <<>> THEN r
    ELSE LET line == Head(ls)
             at == [r EXCEPT !.pos = @ + Len(line) + 1]
             entry == parse_line(agent, line, r.seen)
         IN IF line = <<>> \/ entry = None
            THEN read_lines(agent, Tail(ls), at)
            ELSE IF dedup_key(Unwrap(entry)) \in r.seen
            THEN read_lines(agent, Tail(ls),
                            [at EXCEPT !.dropped = Append(@, Unwrap(entry))])
            ELSE read_lines(agent, Tail(ls),
                            [at EXCEPT !.seen = seen_after(@, dedup_key(Unwrap(entry))),
                                       !.entries = Append(@, Unwrap(entry))])

\* read_new_jsonl_entries: from the recorded position, or from 0 if the file
\* is shorter than it
read_new_jsonl_entries(bytes, last_pos, agent, seen) ==
    LET start_pos == IF Len(bytes) < last_pos THEN 0 ELSE last_pos IN
    read_lines(agent, lines(SubSeq(bytes, start_pos + 1, Len(bytes))),
               [seen |-> seen, entries |-> <<>>, pos |-> start_pos, dropped |-> <<>>])

\* ghost: the tokens of the first entry read with each key triple
RECURSIVE note_first(_, _)
note_first(first, entries) ==
    IF entries = <<>> THEN first
    ELSE note_first(IF KeyOf(Head(entries)) \in DOMAIN first THEN first
                    ELSE MapInsert(first, KeyOf(Head(entries)), Head(entries).tokens),
                    Tail(entries))

InitUsage ==
    /\ ufile = [p \in Paths |-> <<>>]
    /\ positions = EmptyMap
    /\ seen_ids = {}
    /\ events = <<>>
    /\ uwatch = [first |-> EmptyMap, dropped |-> {}, appended |-> 0, truncated |-> 0]

\* an agent appends the next character of its log: the first half of a new
\* line, the second half, or the newline
AppendChar(path) ==
    /\ uwatch.appended < MaxAppend
    /\ LET f == ufile[path]
           last == IF f = <<>> THEN Newline ELSE f[Len(f)]
       IN IF IsNewline(last)
          THEN \E e \in LinesOf(path) :
                  ufile' = [ufile EXCEPT ![path] = Append(f, Half(e, 1))]
          ELSE IF last.half = 1
          THEN ufile' = [ufile EXCEPT ![path] = Append(f, Half(last.e, 2))]
          ELSE ufile' = [ufile EXCEPT ![path] = Append(f, Newline)]
    /\ uwatch' = [uwatch EXCEPT !.appended = @ + 1]
    /\ UNCHANGED <<positions, seen_ids, events>>
    /\ UNCHANGED <<allocVars, proxyVars, ptyVars, attachVars, daemonVars, telemetryVars, profileVars, restVars>>

\* the file is truncated
Truncate(path) ==
    /\ uwatch.truncated < MaxTrunc
    /\ ufile[path] # <<>>
    /\ ufile' = [ufile EXCEPT ![path] = <<>>]
    /\ uwatch' = [uwatch EXCEPT !.truncated = @ + 1]
    /\ UNCHANGED <<positions, seen_ids, events>>
    /\ UNCHANGED <<allocVars, proxyVars, ptyVars, attachVars, daemonVars, telemetryVars, profileVars, restVars>>

\* run_watcher: a change event for the file: read the new entries, record the
\* position, broadcast one UsageUpdated for each entry
WatchEvent(path) ==
    /\ LET last_pos == IF path \in DOMAIN positions THEN positions[path] ELSE 0
           r == read_new_jsonl_entries(ufile[path], last_pos, path, seen_ids)
       IN /\ Len(events) + Len(r.entries) <= MaxEvents
          /\ positions' = MapInsert(positions, path, r.pos)
          /\ seen_ids' = r.seen
          /\ events' = events \o r.entries
          /\ uwatch' = [uwatch EXCEPT
                !.first = note_first(@, r.entries \o r.dropped),
                !.dropped = @ \cup {r.dropped[i] : i \in DOMAIN r.dropped}]
    /\ <<positions', seen_ids', events', uwatch'>> # <<positions, seen_ids, events, uwatch>>
    /\ UNCHANGED ufile
    /\ UNCHANGED <<allocVars, proxyVars, ptyVars, attachVars, daemonVars, telemetryVars, profileVars, restVars>>

----------------------------------------------------------------------------
(* telemetry.rs: TelemetryCollector.  sessions.jsonl is the number of        *)
(* complete lines it holds and whether a partial line follows them;          *)
(* aggregates.json is missing (None), unreadable, or holds total_sessions.   *)

\* record_session calls in all
MaxRecords == 3

\* no call in flight: ret is what the last call returned, appended whether it
\* wrote its line to sessions.jsonl
RecIdle == [pc |-> "idle", loaded |-> 0, ret |-> None, appended |-> FALSE, started_at |-> 0]

InitTelemetry ==
    /\ sessions_log = [complete |-> 0, partial |-> FALSE, started |-> <<>>]
    /\ aggregates_file = None
    /\ rtask = [t \in TaskIds |-> RecIdle]
    /\ recorded = 0

\* the instants Utc::now() can give a session as its started_at
StartTimes == 0..MaxRecords

\* record_session(session) is entered by task t
record_session_call(t, started_at) ==
    /\ rtask[t].pc = "idle"
    /\ recorded < MaxRecords
    /\ recorded' = recorded + 1
    /\ rtask' = [rtask EXCEPT ![t] = [RecIdle EXCEPT !.pc = "append",
                                                     !.started_at = started_at]]
    /\ UNCHANGED <<sessions_log, aggregates_file>>

\* a caller records a session
RecordCall(t) ==
    /\ \E started_at \in StartTimes : record_session_call(t, started_at)
    /\ UNCHANGED <<allocVars, proxyVars, ptyVars, attachVars, daemonVars, usageVars, profileVars, restVars>>

\* writeln to the file opened for append: the whole line, which also ends a
\* partial line left before it
append_line(log, started_at) ==
    [complete |-> log.complete + 1, partial |-> FALSE,
     started |-> Append(log.started, started_at)]

\* record_session, "Append to sessions.jsonl": the open or the write may fail,
\* and a failed write may leave a part of the line
RecordAppend(t) ==
    /\ rtask[t].pc = "append"
    /\ \/ /\ sessions_log' = append_line(sessions_log, rtask[t].started_at)
          /\ rtask' = [rtask EXCEPT ![t].pc = "load", ![t].appended = TRUE]
       \/ /\ sessions_log' \in {sessions_log, [sessions_log EXCEPT !.partial = TRUE]}
          /\ rtask' = [rtask EXCEPT ![t] = [RecIdle EXCEPT !.ret = Some("err")]]
    /\ UNCHANGED <<aggregates_file, recorded>>
    /\ UNCHANGED <<allocVars, proxyVars, ptyVars, attachVars, daemonVars, usageVars, profileVars, restVars>>

\* the content of aggregates.json: what save_aggregates writes, and what a
\* write that failed part-way leaves
Aggregates(n) == [readable |-> TRUE, total_sessions |-> n]
CutShort == [readable |-> FALSE, total_sessions |-> 0]

\* load_aggregates: the default if the file does not exist, an error if it
\* cannot be read or parsed
load_aggregates(file) ==
    IF file = None THEN Some(0)
    ELSE IF ~Unwrap(file).readable THEN None
    ELSE Some(Unwrap(file).total_sessions)

\* update_aggregates: load
RecordLoad(t) ==
    /\ rtask[t].pc = "load"
    /\ rtask' = [rtask EXCEPT ![t] =
          IF IsSome(load_aggregates(aggregates_file))
          THEN [@ EXCEPT !.pc = "save", !.loaded = Unwrap(load_aggregates(aggregates_file))]
          ELSE [RecIdle EXCEPT !.ret = Some("err"), !.appended = TRUE]]
    /\ UNCHANGED <<sessions_log, aggregates_file, recorded>>
    /\ UNCHANGED <<allocVars, proxyVars, ptyVars, attachVars, daemonVars, usageVars, profileVars, restVars>>

\* update_aggregates: total_sessions += 1, save; a failed write may leave the
\* file cut short
RecordSave(t) ==
    /\ rtask[t].pc = "save"
    /\ \/ /\ aggregates_file' = Some(Aggregates(rtask[t].loaded + 1))
          /\ rtask' = [rtask EXCEPT ![t] = [RecIdle EXCEPT !.ret = Some("ok"),
                                                           !.appended = TRUE]]
       \/ /\ aggregates_file' \in {aggregates_file, Some(CutShort)}
          /\ rtask' = [rtask EXCEPT ![t] = [RecIdle EXCEPT !.ret = Some("err"),
                                                           !.appended = TRUE]]
    /\ UNCHANGED <<sessions_log, recorded>>
    /\ UNCHANGED <<allocVars, proxyVars, ptyVars, attachVars, daemonVars, usageVars, profileVars, restVars>>

\* aggregates.total_sessions as a reader of the file sees it
total_sessions == load_aggregates(aggregates_file)

----------------------------------------------------------------------------
(* profile_manager.rs, handlers/profiles.rs, handlers/hooks.rs: the profile  *)
(* store and the handlers that use it.  The handlers run on the tasks of a   *)
(* multi-threaded runtime, so one action is one file-system operation or one *)
(* stretch under the agent_registry mutex.  The agent is installed and       *)
(* supports hooks, the provider authenticates itself (no api_key is stored   *)
(* or read), no profile enables the proxy, and the file system does what it  *)
(* is asked.                                                                 *)

\* handler calls in all
MaxHandlerCalls == 4

\* rpc.rs: error_codes
PROFILE_NOT_FOUND == 1003
PROFILE_EXISTS == 1004

\* the other responses of the handlers
ProfileResponse == [kind |-> "Profile", code |-> 0]
RunCompleted == [kind |-> "RunCompleted", code |-> 0]

\* the agent manifest's profile.source_home, a string cut at its tokens
SourceHome == <<"~/.", "{agent-id}", "-profiles/", "{alias}">>
AgentId == "claude"

\* paths.rs: expand_template, and the leading ~ expanded
expand_template(template, alias, agent_id) ==
    [i \in DOMAIN template |->
        CASE template[i] = "{alias}" -> alias
          [] template[i] = "{agent-id}" -> agent_id
          [] template[i] = "~/." -> "/home/."
          [] OTHER -> template[i]]

\* hooks.rs: HooksConfig, HookRule, HookAction (a Command or a Url)
HooksDefault == [pre_tool_use |-> <<>>, post_tool_use |-> <<>>, notification |-> <<>>,
                 stop |-> <<>>]
HookRule(matcher, hooks) == [matcher |-> matcher, hooks |-> hooks]
Command(command, timeout) ==
    [type |-> "command", command |-> command, url |-> "", timeout |-> timeout]
Url(url) == [type |-> "url", command |-> "", url |-> url, timeout |-> None]

is_empty(config) ==
    /\ config.pre_tool_use = <<>> /\ config.post_tool_use = <<>>
    /\ config.notification = <<>> /\ config.stop = <<>>

unwrap_or_default(hooks_config) ==
    IF IsSome(hooks_config) THEN Unwrap(hooks_config) ELSE HooksDefault

\* the Profile that create builds
new_profile(home) == [home |-> home, total_runs |-> 0, hooks_config |-> None]

\* Profile::mark_used
mark_used(profile) == [profile EXCEPT !.total_runs = @ + 1]

\* std::fs::create_dir_all: an existing directory is left as it is
create_dir_all(dirs, path) == IF path \in DOMAIN dirs THEN dirs ELSE MapInsert(dirs, path, FALSE)

\* std::fs::remove_file
remove_file_keeps(fs, alias) == fs
\* std::fs::remove_file
remove_file(fs, alias) == MapRemove(fs, alias)

\* no handler in flight: op, alias and ret are those of the last call
HIdle == [op |-> "none", pc |-> "idle", alias |-> 0, profile |-> None,
          started_at |-> 0, config |-> HooksDefault, ret |-> None]

HReturn(h, response) == [h EXCEPT !.pc = "idle", !.profile = None, !.started_at = 0,
                                  !.ret = Some(response)]

InitProfiles ==
    /\ profile_files = EmptyMap
    /\ home_dirs = EmptyMap
    /\ registry_lock = 0
    /\ hreq = [t \in TaskIds |-> HIdle]
    /\ now = 0
    /\ hcalls = 0

HandlerOps == {"create", "inspect", "delete", "run", "hooks_add"}
FirstPc(op) == CASE op = "create" -> "c_lock"
                 [] op = "inspect" -> "i_get"
                 [] op = "delete" -> "d_check"
                 [] op = "run" -> "r_get"
                 [] op = "hooks_add" -> "h_get"

\* a request reaches its handler
HandlerCall(t) ==
    /\ hreq[t].pc = "idle"
    /\ hcalls < MaxHandlerCalls
    /\ hcalls' = hcalls + 1
    /\ \E op \in HandlerOps, a \in Aliases :
          hreq' = [hreq EXCEPT ![t] = [HIdle EXCEPT !.op = op, !.pc = FirstPc(op),
                                                     !.alias = a]]
    /\ UNCHANGED <<profile_files, home_dirs, registry_lock, now>>
    /\ UNCHANGED <<allocVars, proxyVars, ptyVars, attachVars, daemonVars, usageVars, telemetryVars, restVars>>

\* handlers::profiles::create: agent_registry.lock().await; the guard lives to
\* the end of the function
CreateLock(t) ==
    /\ hreq[t].pc = "c_lock"
    /\ registry_lock = 0
    /\ registry_lock' = t
    /\ hreq' = [hreq EXCEPT ![t].pc = "c_check"]
    /\ UNCHANGED <<profile_files, home_dirs, now, hcalls>>
    /\ UNCHANGED <<allocVars, proxyVars, ptyVars, attachVars, daemonVars, usageVars, telemetryVars, restVars>>

\* the code create answers with when ProfileManager::create fails
create_error_code == INTERNAL_ERROR

\* ProfileManager::create up to create_dir_all: "Profile already exists" if
\* the file is there
CreateExists(t) ==
    /\ hreq[t].pc = "c_check"
    /\ IF hreq[t].alias \in DOMAIN profile_files
       THEN /\ hreq' = [hreq EXCEPT ![t] = HReturn(@, Error(create_error_code))]
            /\ registry_lock' = 0
            /\ UNCHANGED home_dirs
       ELSE /\ home_dirs' = create_dir_all(home_dirs,
                                expand_template(SourceHome, hreq[t].alias, AgentId))
            /\ hreq' = [hreq EXCEPT ![t].pc = "c_write"]
            /\ UNCHANGED registry_lock
    /\ UNCHANGED <<profile_files, now, hcalls>>
    /\ UNCHANGED <<allocVars, proxyVars, ptyVars, attachVars, daemonVars, usageVars, telemetryVars, restVars>>

\* ProfileManager::create, "Save profile", and the handler's answer
CreateWrite(t) ==
    /\ hreq[t].pc = "c_write"
    /\ profile_files' = MapInsert(profile_files, hreq[t].alias,
                           new_profile(expand_template(SourceHome, hreq[t].alias, AgentId)))
    /\ hreq' = [hreq EXCEPT ![t] = HReturn(@, Success)]
    /\ registry_lock' = 0
    /\ UNCHANGED <<home_dirs, now, hcalls>>
    /\ UNCHANGED <<allocVars, proxyVars, ptyVars, attachVars, daemonVars, usageVars, telemetryVars, restVars>>

\* ProfileManager::get
get(fs, alias) == IF alias \in DOMAIN fs THEN Some(fs[alias]) ELSE None

\* handlers::profiles::inspect
Inspect(t) ==
    /\ hreq[t].pc = "i_get"
    /\ hreq' = [hreq EXCEPT ![t] =
          IF IsSome(get(profile_files, hreq[t].alias))
          THEN HReturn(@, ProfileResponse)
          ELSE HReturn(@, Error(PROFILE_NOT_FOUND))]
    /\ UNCHANGED <<profile_files, home_dirs, registry_lock, now, hcalls>>
    /\ UNCHANGED <<allocVars, proxyVars, ptyVars, attachVars, daemonVars, usageVars, telemetryVars, restVars>>

\* ProfileManager::delete: exists, read_to_string
DeleteCheck(t) ==
    /\ hreq[t].pc = "d_check"
    /\ hreq' = [hreq EXCEPT ![t] =
          IF hreq[t].alias \in DOMAIN profile_files
          THEN [@ EXCEPT !.pc = "d_remove"]
          ELSE HReturn(@, Error(PROFILE_NOT_FOUND))]
    /\ UNCHANGED <<profile_files, home_dirs, registry_lock, now, hcalls>>
    /\ UNCHANGED <<allocVars, proxyVars, ptyVars, attachVars, daemonVars, usageVars, telemetryVars, restVars>>

\* ProfileManager::delete: remove_file, which fails with the system's message
\* if the file has gone; the home is preserved
DeleteRemove(t) ==
    /\ hreq[t].pc = "d_remove"
    /\ IF hreq[t].alias \in DOMAIN profile_files
       THEN /\ profile_files' = remove_file(profile_files, hreq[t].alias)
            /\ hreq' = [hreq EXCEPT ![t] = HReturn(@, Success)]
       ELSE /\ hreq' = [hreq EXCEPT ![t] = HReturn(@, Error(INTERNAL_ERROR))]
            /\ UNCHANGED profile_files
    /\ UNCHANGED <<home_dirs, registry_lock, now, hcalls>>
    /\ UNCHANGED <<allocVars, proxyVars, ptyVars, attachVars, daemonVars, usageVars, telemetryVars, restVars>>

\* handlers::profiles::run, "Get the profile first"
RunGet(t) ==
    /\ hreq[t].pc = "r_get"
    /\ hreq' = [hreq EXCEPT ![t] =
          IF IsSome(get(profile_files, hreq[t].alias))
          THEN [@ EXCEPT !.pc = "r_lock", !.profile = get(profile_files, hreq[t].alias)]
          ELSE HReturn(@, Error(PROFILE_NOT_FOUND))]
    /\ UNCHANGED <<profile_files, home_dirs, registry_lock, now, hcalls>>
    /\ UNCHANGED <<allocVars, proxyVars, ptyVars, attachVars, daemonVars, usageVars, telemetryVars, restVars>>

\* run and hooks::add: agent_registry.lock().await, the manifest read, the
\* guard dropped
RegistryLookup(t) ==
    /\ hreq[t].pc \in {"r_lock", "h_lock"}
    /\ registry_lock = 0
    /\ hreq' = [hreq EXCEPT ![t].pc = IF @ = "r_lock" THEN "r_spawn" ELSE "h_update"]
    /\ UNCHANGED <<profile_files, home_dirs, registry_lock, now, hcalls>>
    /\ UNCHANGED <<allocVars, proxyVars, ptyVars, attachVars, daemonVars, usageVars, telemetryVars, restVars>>

\* run: started_at = Utc::now(), then execution_adapter.run writes the
\* generated files into the profile home and spawns the agent
RunSpawn(t) ==
    /\ hreq[t].pc = "r_spawn"
    /\ now' = now + 1
    /\ home_dirs' = MapInsert(home_dirs, Unwrap(hreq[t].profile).home, TRUE)
    /\ hreq' = [hreq EXCEPT ![t].pc = "r_mark", ![t].started_at = now]
    /\ UNCHANGED <<profile_files, registry_lock, hcalls>>
    /\ UNCHANGED <<allocVars, proxyVars, ptyVars, attachVars, daemonVars, usageVars, telemetryVars, restVars>>

\* ProfileManager::mark_used: exists, read_to_string; run only warns if the
\* profile is not there
MarkUsedRead(t) ==
    /\ hreq[t].pc = "r_mark"
    /\ hreq' = [hreq EXCEPT ![t] =
          IF hreq[t].alias \in DOMAIN profile_files
          THEN [@ EXCEPT !.pc = "r_mark_write", !.profile = Some(profile_files[hreq[t].alias])]
          ELSE [@ EXCEPT !.pc = "r_wait"]]
    /\ UNCHANGED <<profile_files, home_dirs, registry_lock, now, hcalls>>
    /\ UNCHANGED <<allocVars, proxyVars, ptyVars, attachVars, daemonVars, usageVars, telemetryVars, restVars>>

\* ProfileManager::mark_used: profile.mark_used(), write
MarkUsedWrite(t) ==
    /\ hreq[t].pc = "r_mark_write"
    /\ profile_files' = MapInsert(profile_files, hreq[t].alias,
                                  mark_used(Unwrap(hreq[t].profile)))
    /\ hreq' = [hreq EXCEPT ![t].pc = "r_wait"]
    /\ UNCHANGED <<home_dirs, registry_lock, now, hcalls>>
    /\ UNCHANGED <<allocVars, proxyVars, ptyVars, attachVars, daemonVars, usageVars, telemetryVars, restVars>>

\* run: child.wait() returns when the agent has exited, then record_session
\* is called with the started_at taken before the run
RunRecord(t) ==
    /\ hreq[t].pc = "r_wait"
    /\ record_session_call(t, hreq[t].started_at)
    /\ hreq' = [hreq EXCEPT ![t].pc = "r_record"]
    /\ UNCHANGED <<profile_files, home_dirs, registry_lock, now, hcalls>>
    /\ UNCHANGED <<allocVars, proxyVars, ptyVars, attachVars, daemonVars, usageVars, restVars>>

\* run: record_session has returned; a failure is only logged
RunReturn(t) ==
    /\ hreq[t].pc = "r_record"
    /\ rtask[t].pc = "idle"
    /\ hreq' = [hreq EXCEPT ![t] = HReturn(@, RunCompleted)]
    /\ UNCHANGED <<profile_files, home_dirs, registry_lock, now, hcalls>>
    /\ UNCHANGED <<allocVars, proxyVars, ptyVars, attachVars, daemonVars, usageVars, telemetryVars, restVars>>

\* hooks::add, "Load profile"
HooksGet(t) ==
    /\ hreq[t].pc = "h_get"
    /\ hreq' = [hreq EXCEPT ![t] =
          IF IsSome(get(profile_files, hreq[t].alias))
          THEN [@ EXCEPT !.pc = "h_lock", !.profile = get(profile_files, hreq[t].alias)]
          ELSE HReturn(@, Error(PROFILE_NOT_FOUND))]
    /\ UNCHANGED <<profile_files, home_dirs, registry_lock, now, hcalls>>
    /\ UNCHANGED <<allocVars, proxyVars, ptyVars, attachVars, daemonVars, usageVars, telemetryVars, restVars>>

\* hooks::add: the rule pushed to a clone of the profile read at "Load profile"
add_rule(profile) ==
    [profile EXCEPT !.hooks_config =
        Some([unwrap_or_default(@) EXCEPT
                 !.pre_tool_use = Append(@, HookRule("Bash", <<Command("echo", None)>>))])]

\* ProfileManager::update(profile): the record is written to the profile's
\* file; if the file is not there the call may write it or fail
update(fs, alias, profile) ==
    {[fs |-> MapInsert(fs, alias, profile), ok |-> TRUE]}
        \cup (IF alias \in DOMAIN fs THEN {} ELSE {[fs |-> fs, ok |-> FALSE]})

\* hooks::add, "Update profile"
HooksUpdate(t) ==
    /\ hreq[t].pc = "h_update"
    /\ \E u \in update(profile_files, hreq[t].alias, add_rule(Unwrap(hreq[t].profile))) :
          /\ profile_files' = u.fs
          /\ hreq' = [hreq EXCEPT ![t] =
                HReturn(@, IF u.ok THEN Success ELSE Error(INTERNAL_ERROR))]
    /\ UNCHANGED <<home_dirs, registry_lock, now, hcalls>>
    /\ UNCHANGED <<allocVars, proxyVars, ptyVars, attachVars, daemonVars, usageVars, telemetryVars, restVars>>

NextProfiles ==
    \/ \E t \in TaskIds : HandlerCall(t)
    \/ \E t \in TaskIds : CreateLock(t)
    \/ \E t \in TaskIds : CreateExists(t)
    \/ \E t \in TaskIds : CreateWrite(t)
    \/ \E t \in TaskIds : Inspect(t)
    \/ \E t \in TaskIds : DeleteCheck(t)
    \/ \E t \in TaskIds : DeleteRemove(t)
    \/ \E t \in TaskIds : RunGet(t)
    \/ \E t \in TaskIds : RegistryLookup(t)
    \/ \E t \in TaskIds : RunSpawn(t)
    \/ \E t \in TaskIds : MarkUsedRead(t)
    \/ \E t \in TaskIds : MarkUsedWrite(t)
    \/ \E t \in TaskIds : RunRecord(t)
    \/ \E t \in TaskIds : RecordAppend(t)
    \/ \E t \in TaskIds : RecordLoad(t)
    \/ \E t \in TaskIds : RecordSave(t)
    \/ \E t \in TaskIds : RunReturn(t)
    \/ \E t \in TaskIds : HooksGet(t)
    \/ \E t \in TaskIds : HooksUpdate(t)

----------------------------------------------------------------------------
(* registry_client.rs, handlers/registry.rs: the registry client.  The wall  *)
(* clock counts half hours.  The remote serves one index at a time; a fetch  *)
(* or a download may fail.  The local file system does what it is asked; the *)
(* pricing cache that sync refreshes on the way is not part of the state.    *)

\* registry calls in all, and the last instant of the clock
MaxSyncCalls == 3
MaxWall == 96

\* rpc.rs: error_codes
REGISTRY_ERROR == 3001

\* needs_sync: hours of age from which a sync is due
SyncAfterHours == 24

\* the commits the remote may serve, and the steps the clock may take:
\* 23 hours and a half, 24 hours
Commits == {"c1", "c2"}
Advances == {47, 48}

\* RegistryLock::default()
DefaultLock == [channel |-> "", commit |-> None, last_sync |-> None, pinned_ref |-> None]

\* load_lock
load_lock(file) == IF IsSome(file) THEN Unwrap(file) ELSE DefaultLock

\* chrono::Duration::num_hours of an age in half hours: whole hours, towards 0
num_hours(age) == IF age >= 0 THEN age \div 2 ELSE -((-age) \div 2)

\* a plausible slip: a sync is due from 23 hours on
needs_sync_early(lock, time) ==
    IF IsSome(lock.last_sync)
    THEN num_hours(time - Unwrap(lock.last_sync)) >= SyncAfterHours - 1
    ELSE TRUE

\* needs_sync
needs_sync(lock, time) ==
    IF IsSome(lock.last_sync)
    THEN num_hours(time - Unwrap(lock.last_sync)) >= SyncAfterHours
    ELSE TRUE

\* get_status, and the handler's RegistryStatus from it
RegistryStatus(lock, offline) ==
    [kind |-> "RegistryStatus", code |-> 0, channel |-> lock.channel,
     commit |-> lock.commit, last_sync |-> lock.last_sync, offline |-> offline]
\* a plausible slip: the handler answers with the catch-all code
RegistryFailureInternal == [kind |-> "Error", code |-> INTERNAL_ERROR, channel |-> "",
                            commit |-> None, last_sync |-> None, offline |-> FALSE]
RegistryFailure == [kind |-> "Error", code |-> REGISTRY_ERROR, channel |-> "",
                    commit |-> None, last_sync |-> None, offline |-> FALSE]
RegistryDone == [RegistryFailure EXCEPT !.kind = "Success", !.code = 0]

\* no call in flight: op, force, offline, fetched and ret are those of the
\* last call; fetched tells whether it asked the remote for the index
SIdle == [op |-> "none", pc |-> "idle", force |-> FALSE, offline |-> FALSE,
          lock |-> DefaultLock, index |-> None, fetched |-> FALSE, ret |-> None]

SReturn(q, response) == [q EXCEPT !.pc = "idle", !.ret = Some(response)]

\* RegistryClient::new: nothing cached, no lock file
InitRegistry ==
    /\ lock_file = None
    /\ commits = {}
    /\ remote = [channel |-> "stable", commit |-> Some("c1")]
    /\ wall = 0
    /\ sreq = [t \in TaskIds |-> SIdle]
    /\ scalls = 0

\* a RegistrySync or RegistryPin request reaches its handler
SyncCall(t) ==
    /\ sreq[t].pc = "idle"
    /\ scalls < MaxSyncCalls
    /\ scalls' = scalls + 1
    /\ \/ \E force, offline \in BOOLEAN :
             sreq' = [sreq EXCEPT ![t] = [SIdle EXCEPT !.op = "sync", !.pc = "s_start",
                                                        !.force = force, !.offline = offline]]
       \/ sreq' = [sreq EXCEPT ![t] = [SIdle EXCEPT !.op = "pin", !.pc = "p_load"]]
    /\ UNCHANGED <<lock_file, commits, remote, wall>>
    /\ UNCHANGED <<allocVars, proxyVars, ptyVars, attachVars, daemonVars, usageVars, telemetryVars, profileVars, besideRegistry>>

\* sync: offline goes to get_status; else load_lock and "Check if we need to
\* sync"
SyncStart(t) ==
    /\ sreq[t].pc = "s_start"
    /\ sreq' = [sreq EXCEPT ![t] =
          IF sreq[t].offline THEN [@ EXCEPT !.pc = "s_status"]
          ELSE IF ~sreq[t].force /\ ~needs_sync(load_lock(lock_file), wall)
          THEN [@ EXCEPT !.pc = "s_status", !.lock = load_lock(lock_file)]
          ELSE [@ EXCEPT !.pc = "s_fetch", !.lock = load_lock(lock_file)]]
    /\ UNCHANGED <<lock_file, commits, remote, wall, scalls>>
    /\ UNCHANGED <<allocVars, proxyVars, ptyVars, attachVars, daemonVars, usageVars, telemetryVars, profileVars, besideRegistry>>

\* fetch_index: the request or the parse may fail
SyncFetch(t) ==
    /\ sreq[t].pc = "s_fetch"
    /\ \/ sreq' = [sreq EXCEPT ![t] = [@ EXCEPT !.pc = "s_download", !.index = Some(remote),
                                                 !.fetched = TRUE]]
       \/ sreq' = [sreq EXCEPT ![t] = SReturn([@ EXCEPT !.fetched = TRUE], RegistryFailure)]
    /\ UNCHANGED <<lock_file, commits, remote, wall, scalls>>
    /\ UNCHANGED <<allocVars, proxyVars, ptyVars, attachVars, daemonVars, usageVars, telemetryVars, profileVars, besideRegistry>>

\* the directory download_artifacts fills
cache_dir(commit) == IF IsSome(commit) THEN Unwrap(commit) ELSE "latest"

\* download_artifacts: the commit's directory is made, then any download may
\* fail
SyncDownload(t) ==
    /\ sreq[t].pc = "s_download"
    /\ commits' = commits \cup {cache_dir(Unwrap(sreq[t].index).commit)}
    /\ \/ sreq' = [sreq EXCEPT ![t].pc = "s_save"]
       \/ sreq' = [sreq EXCEPT ![t] = SReturn(@, RegistryFailure)]
    /\ UNCHANGED <<lock_file, remote, wall, scalls>>
    /\ UNCHANGED <<allocVars, proxyVars, ptyVars, attachVars, daemonVars, usageVars, telemetryVars, profileVars, besideRegistry>>

\* sync, "Update lock file"
new_lock(index, lock, time) ==
    [channel |-> index.channel, commit |-> index.commit, last_sync |-> Some(time),
     pinned_ref |-> lock.pinned_ref]

\* sync: save_lock(&new_lock)
SyncSave(t) ==
    /\ sreq[t].pc = "s_save"
    /\ lock_file' = Some(new_lock(Unwrap(sreq[t].index), sreq[t].lock, wall))
    /\ sreq' = [sreq EXCEPT ![t].pc = "s_status"]
    /\ UNCHANGED <<commits, remote, wall, scalls>>
    /\ UNCHANGED <<allocVars, proxyVars, ptyVars, attachVars, daemonVars, usageVars, telemetryVars, profileVars, besideRegistry>>

\* get_status and the handler's answer
SyncStatus(t) ==
    /\ sreq[t].pc = "s_status"
    /\ sreq' = [sreq EXCEPT ![t] =
          SReturn(@, RegistryStatus(load_lock(lock_file), sreq[t].offline))]
    /\ UNCHANGED <<lock_file, commits, remote, wall, scalls>>
    /\ UNCHANGED <<allocVars, proxyVars, ptyVars, attachVars, daemonVars, usageVars, telemetryVars, profileVars, besideRegistry>>

\* pin: load_lock
PinLoad(t) ==
    /\ sreq[t].pc = "p_load"
    /\ sreq' = [sreq EXCEPT ![t] = [@ EXCEPT !.pc = "p_save", !.lock = load_lock(lock_file)]]
    /\ UNCHANGED <<lock_file, commits, remote, wall, scalls>>
    /\ UNCHANGED <<allocVars, proxyVars, ptyVars, attachVars, daemonVars, usageVars, telemetryVars, profileVars, besideRegistry>>

\* pin: pinned_ref set, save_lock
PinSave(t) ==
    /\ sreq[t].pc = "p_save"
    /\ lock_file' = Some([sreq[t].lock EXCEPT !.pinned_ref = Some("ref")])
    /\ sreq' = [sreq EXCEPT ![t] = SReturn(@, RegistryDone)]
    /\ UNCHANGED <<commits, remote, wall, scalls>>
    /\ UNCHANGED <<allocVars, proxyVars, ptyVars, attachVars, daemonVars, usageVars, telemetryVars, profileVars, besideRegistry>>

\* the remote publishes another commit
RemotePublish ==
    /\ \E c \in Commits : remote' = [remote EXCEPT !.commit = Some(c)]
    /\ remote' # remote
    /\ UNCHANGED <<lock_file, commits, wall, sreq, scalls>>
    /\ UNCHANGED <<allocVars, proxyVars, ptyVars, attachVars, daemonVars, usageVars, telemetryVars, profileVars, besideRegistry>>

\* time passes
WallAdvance ==
    /\ \E d \in Advances : wall + d <= MaxWall /\ wall' = wall + d
    /\ UNCHANGED <<lock_file, commits, remote, sreq, scalls>>
    /\ UNCHANGED <<allocVars, proxyVars, ptyVars, attachVars, daemonVars, usageVars, telemetryVars, profileVars, besideRegistry>>

NextRegistry ==
    \/ \E t \in TaskIds : SyncCall(t)
    \/ \E t \in TaskIds : SyncStart(t)
    \/ \E t \in TaskIds : SyncFetch(t)
    \/ \E t \in TaskIds : SyncDownload(t)
    \/ \E t \in TaskIds : SyncSave(t)
    \/ \E t \in TaskIds : SyncStatus(t)
    \/ \E t \in TaskIds : PinLoad(t)
    \/ \E t \in TaskIds : PinSave(t)
    \/ RemotePublish
    \/ WallAdvance

----------------------------------------------------------------------------
(* http/websocket.rs, events.rs, events/broadcaster.rs: the event          *)
(* WebSocket.  One connection is modelled; its handler is a loop that      *)
(* selects among the heartbeat timer, the client's messages and the        *)
(* receiver of the event bus.  A subscription is a string; "topic:alias"   *)
(* is written as the sequence <<topic, ":", alias>>.                       *)

MaxClientMessages == 2
MaxPublished == 3
MaxHeartbeats == 1
EventCap == 2

Key(name) == <<name>>
format(name, a) == <<name, ":", a>>

Event(type, a) == [type |-> type, alias |-> a]
BusEvents ==
    {Event("profile_created", Some("a1")), Event("proxy_started", Some("a1")),
     Event("registry_sync_started", None)}

\* Event::topic
topic(event) ==
    CASE event.type \in {"connected", "heartbeat"} -> "system"
      [] event.type \in {"profile_created", "profile_deleted", "profile_run_started",
                         "profile_run_completed"} -> "profiles"
      [] event.type \in {"proxy_started", "proxy_stopped", "proxy_status_changed"} -> "proxy"
      [] event.type \in {"registry_sync_started", "registry_sync_completed"} -> "registry"
      [] OTHER -> "usage"

\* the filter of handle_socket
should_send(subscribed_topics, event) ==
    \/ Key("*") \in subscribed_topics
    \/ Key(topic(event)) \in subscribed_topics
    \/ /\ IsSome(event.alias)
       /\ format(topic(event), Unwrap(event.alias)) \in subscribed_topics

\* the topic lists a client sends
TopicKeys == {Key("*"), Key("profiles"), Key("proxy"), format("profiles", "a1")}
TopicLists == {l \in SUBSET TopicKeys : Cardinality(l) \in 1..2}

WsNone == [state |-> "none", subscribed_topics |-> {}, event_rx |-> <<>>,
           lagged |-> FALSE, sent |-> <<>>, asked |-> {}, msgs |-> 0,
           published |-> 0, beats |-> 0]

InitWs == ws = WsNone

\* handle_socket up to the loop: subscribe to the bus, start with "*", send
\* the Connected event
EvConnect ==
    /\ ws.state = "none"
    /\ ws' = [ws EXCEPT !.state = "open", !.subscribed_topics = {Key("*")},
                        !.sent = <<Event("connected", None)>>]
    /\ UNCHANGED <<allocVars, proxyVars, ptyVars, attachVars, daemonVars, usageVars, telemetryVars, profileVars, besideWs>>

\* the heartbeat timer fires
EvHeartbeat ==
    /\ ws.state = "open"
    /\ ws.beats < MaxHeartbeats
    /\ ws' = [ws EXCEPT !.sent = Append(@, Event("heartbeat", None)), !.beats = @ + 1]
    /\ UNCHANGED <<allocVars, proxyVars, ptyVars, attachVars, daemonVars, usageVars, telemetryVars, profileVars, besideWs>>

\* ClientMessage::Subscribe
EvSubscribe ==
    /\ ws.state = "open"
    /\ ws.msgs < MaxClientMessages
    /\ \E topics \in TopicLists :
          ws' = [ws EXCEPT !.subscribed_topics = @ \cup topics,
                           !.asked = @ \cup topics, !.msgs = @ + 1]
    /\ UNCHANGED <<allocVars, proxyVars, ptyVars, attachVars, daemonVars, usageVars, telemetryVars, profileVars, besideWs>>

\* ClientMessage::Unsubscribe
EvUnsubscribe ==
    /\ ws.state = "open"
    /\ ws.msgs < MaxClientMessages
    /\ \E topics \in TopicLists :
          ws' = [ws EXCEPT !.subscribed_topics = @ \ topics,
                           !.asked = @ \ topics, !.msgs = @ + 1]
    /\ UNCHANGED <<allocVars, proxyVars, ptyVars, attachVars, daemonVars, usageVars, telemetryVars, profileVars, besideWs>>

\* ClientMessage::Ping, or a text that is no ClientMessage: the answer is a
\* Pong, or an Error
EvAnswer ==
    /\ ws.state = "open"
    /\ ws.msgs < MaxClientMessages
    /\ \E type \in {"pong", "error"} :
          ws' = [ws EXCEPT !.sent = Append(@, Event(type, None)), !.msgs = @ + 1]
    /\ UNCHANGED <<allocVars, proxyVars, ptyVars, attachVars, daemonVars, usageVars, telemetryVars, profileVars, besideWs>>

\* the loop breaks: a Close frame, a receive error, a failed send
EvClose ==
    /\ ws.state = "open"
    /\ ws' = [ws EXCEPT !.state = "closed", !.event_rx = <<>>, !.lagged = FALSE]
    /\ UNCHANGED <<allocVars, proxyVars, ptyVars, attachVars, daemonVars, usageVars, telemetryVars, profileVars, besideWs>>

\* event_rx.recv() returns an event: it is sent if the filter lets it through
EvForward ==
    /\ ws.state = "open"
    /\ ~ws.lagged
    /\ ws.event_rx # <<>>
    /\ LET event == Head(ws.event_rx) IN
       ws' = [ws EXCEPT !.event_rx = Tail(@),
                        !.sent = IF should_send(ws.subscribed_topics, event)
                                 THEN Append(@, event) ELSE @]
    /\ UNCHANGED <<allocVars, proxyVars, ptyVars, attachVars, daemonVars, usageVars, telemetryVars, profileVars, besideWs>>

\* event_rx.recv() returns Lagged: a warning, and the loop goes on
EvLagged ==
    /\ ws.state = "open"
    /\ ws.lagged
    /\ ws' = [ws EXCEPT !.lagged = FALSE]
    /\ UNCHANGED <<allocVars, proxyVars, ptyVars, attachVars, daemonVars, usageVars, telemetryVars, profileVars, besideWs>>

\* ServerState::broadcast: the receiver of an open connection gets the event;
\* a receiver that is a full channel behind loses its oldest event and lags
Broadcast ==
    /\ ws.published < MaxPublished
    /\ \E event \in BusEvents :
          ws' = IF ws.state # "open" THEN [ws EXCEPT !.published = @ + 1]
                ELSE IF Len(ws.event_rx) < EventCap
                THEN [ws EXCEPT !.event_rx = Append(@, event), !.published = @ + 1]
                ELSE [ws EXCEPT !.event_rx = Append(Tail(@), event), !.lagged = TRUE,
                                !.published = @ + 1]
    /\ UNCHANGED <<allocVars, proxyVars, ptyVars, attachVars, daemonVars, usageVars, telemetryVars, profileVars, besideWs>>

NextWs ==
    \/ EvConnect
    \/ EvHeartbeat
    \/ EvSubscribe
    \/ EvUnsubscribe
    \/ EvAnswer
    \/ EvClose
    \/ EvForward
    \/ EvLagged
    \/ Broadcast

----------------------------------------------------------------------------
(* execution.rs: the environment of the agent process.  A value is a       *)
(* sequence of tokens; the daemon's own environment holds OsStrings, one   *)
(* of which is not valid Unicode.                                          *)

ApiKeyToken == "${API_KEY}"
NotUnicode == <<"\\xff">>
ApiKey == <<"k">>

\* the environments a daemon may be started with
DaemonKeys == {"PATH", "TERM", "SECRET"}
DaemonEnvs == UNION {[keys -> {<<"d">>, NotUnicode}] : keys \in SUBSET DaemonKeys}

\* profile.env, provider.auth.env_key and the env of the script's output
ProfileEnvs == UNION {[keys -> {<<"p">>}] : keys \in SUBSET {"PATH", "_RINGLET_ID"}}
EnvKeyNames == {"", "API"}
ScriptEnvs == UNION {[keys -> {<<"s">>, <<"s", ApiKeyToken>>}] : keys \in SUBSET {"API", "TERM"}}

\* the keys that start with "_RINGLET_"
Internal == {"_RINGLET_ID"}

Essential == {"PATH", "TERM", "LANG", "LC_ALL", "USER", "SHELL"}

\* over's entries on top of base's
Overlay(base, over) ==
    [k \in DOMAIN base \cup DOMAIN over |-> IF k \in DOMAIN over THEN over[k] ELSE base[k]]

\* str::replace, token by token
RECURSIVE replace(_, _, _)
replace(value, from, to) ==
    IF value = <<>> THEN <<>>
    ELSE (IF Head(value) = from THEN to ELSE <<Head(value)>>)
         \o replace(Tail(value), from, to)

\* std::env::var: Err if the variable is not set or is not valid Unicode
env_var(environ, key) ==
    IF key \in DOMAIN environ /\ environ[key] # NotUnicode
    THEN Some(environ[key]) ELSE None

\* ExecutionAdapter::build_environment
build_environment(profile_env, home, env_key, api_key, script_env) ==
    LET stored == [k \in DOMAIN profile_env \ Internal |-> profile_env[k]]
        homed == MapInsert(stored, "HOME", home)
        keyed == IF env_key # "" THEN MapInsert(homed, env_key, api_key) ELSE homed
    IN Overlay(keyed, [k \in DOMAIN script_env |->
                          replace(script_env[k], ApiKeyToken, api_key)])

\* spawn_agent: env_clear, the essential variables, then the built ones
command_env(environ, env) ==
    LET kept == {key \in Essential : IsSome(env_var(environ, key))}
    IN Overlay([key \in kept |-> Unwrap(env_var(environ, key))], env)

ExecIdle == [pc |-> "idle", environ |-> EmptyMap, profile_env |-> EmptyMap,
             env_key |-> "", script_env |-> EmptyMap, env |-> EmptyMap,
             child |-> EmptyMap]

InitExec == exec = ExecIdle

\* run is called: the daemon's environment and the profile, provider and
\* script output of the call
ExecRun ==
    /\ exec.pc = "idle"
    /\ \E environ \in DaemonEnvs, profile_env \in ProfileEnvs, env_key \in EnvKeyNames,
          script_env \in ScriptEnvs :
          exec' = [exec EXCEPT !.pc = "build", !.environ = environ,
                               !.profile_env = profile_env, !.env_key = env_key,
                               !.script_env = script_env]
    /\ UNCHANGED <<allocVars, proxyVars, ptyVars, attachVars, daemonVars, usageVars, telemetryVars, profileVars, besideExec>>

\* run, "4. Build environment variables"
ExecBuild ==
    /\ exec.pc = "build"
    /\ exec' = [exec EXCEPT !.pc = "spawn",
                            !.env = build_environment(exec.profile_env, <<"h">>, exec.env_key,
                                                      ApiKey, exec.script_env)]
    /\ UNCHANGED <<allocVars, proxyVars, ptyVars, attachVars, daemonVars, usageVars, telemetryVars, profileVars, besideExec>>

\* run, "5. Spawn the agent process"
ExecSpawn ==
    /\ exec.pc = "spawn"
    /\ exec' = [exec EXCEPT !.pc = "spawned", !.child = command_env(exec.environ, exec.env)]
    /\ UNCHANGED <<allocVars, proxyVars, ptyVars, attachVars, daemonVars, usageVars, telemetryVars, profileVars, besideExec>>

NextExec ==
    \/ ExecRun
    \/ ExecBuild
    \/ ExecSpawn

----------------------------------------------------------------------------
(* handlers/hooks.rs, hooks.rs, commands/mod.rs: import and export of a     *)
(* profile's hooks.  The configuration crosses the wire and the CLI's file  *)
(* as JSON; an object is a function from the keys present.  The ghost trip  *)
(* follows one client that imports a configuration into alias 1, exports   *)
(* it, and imports what it got.                                             *)

FieldNames == {"pre_tool_use", "post_tool_use", "notification", "stop"}

\* serde(rename_all = "PascalCase")
PascalCase(field) ==
    CASE field = "pre_tool_use" -> "PreToolUse"
      [] field = "post_tool_use" -> "PostToolUse"
      [] field = "notification" -> "Notification"
      [] field = "stop" -> "Stop"

\* a HookAction written without its timeout
action_drops_timeout(action) ==
    IF action.type = "command"
    THEN [type |-> "command", command |-> action.command]
    ELSE [type |-> "url", url |-> action.url]
\* HookAction, serde(tag = "type"); timeout is skipped when None
action_to_json(action) ==
    IF action.type = "command"
    THEN IF IsSome(action.timeout)
         THEN [type |-> "command", command |-> action.command,
               timeout |-> Unwrap(action.timeout)]
         ELSE [type |-> "command", command |-> action.command]
    ELSE [type |-> "url", url |-> action.url]

action_from_json(json) ==
    IF json.type = "command"
    THEN Command(json.command,
                 IF "timeout" \in DOMAIN json THEN Some(json.timeout) ELSE None)
    ELSE Url(json.url)

rule_to_json(rule) ==
    [matcher |-> rule.matcher,
     hooks |-> [i \in DOMAIN rule.hooks |-> action_to_json(rule.hooks[i])]]

rule_from_json(json) ==
    HookRule(json.matcher, [i \in DOMAIN json.hooks |-> action_from_json(json.hooks[i])])

\* serde_json::to_string of a HooksConfig: skip_serializing_if = "Vec::is_empty"
to_json(config) ==
    LET present == {field \in FieldNames : config[field] # <<>>}
        field_of(key) == CHOOSE field \in present : PascalCase(field) = key
    IN [key \in {PascalCase(field) : field \in present} |->
           [i \in DOMAIN config[field_of(key)] |-> rule_to_json(config[field_of(key)][i])]]

\* serde_json::from_str to a HooksConfig: serde(default) for a missing key
from_json(json) ==
    [field \in FieldNames |->
        IF PascalCase(field) \in DOMAIN json
        THEN [i \in DOMAIN json[PascalCase(field)] |->
                 rule_from_json(json[PascalCase(field)][i])]
        ELSE <<>>]

\* the configurations a client imports
RuleBash == HookRule("Bash", <<Command("echo", None)>>)
RuleAll == HookRule("*", <<Command("lint", Some(5000)), Url("http://h")>>)
RuleNone == HookRule("Write", <<>>)
Configs ==
    {[pre_tool_use |-> a, post_tool_use |-> b, notification |-> <<>>, stop |-> c] :
        a \in {<<>>, <<RuleBash>>, <<RuleAll, RuleBash>>},
        b \in {<<>>, <<RuleNone>>},
        c \in {<<>>, <<RuleAll>>}}

TripNone == [stage |-> "none", first |-> None, exported |-> HooksDefault]

InitTrip == trip = TripNone

\* the client's next request: an import of a configuration of its own, then
\* an export, then an import of the JSON the export printed
TripCall(t) ==
    /\ t = 1
    /\ hreq[t].pc = "idle"
    /\ hcalls < MaxHandlerCalls
    /\ hcalls' = hcalls + 1
    /\ \/ /\ trip.stage = "none"
          /\ \E config \in Configs :
                hreq' = [hreq EXCEPT ![t] = [HIdle EXCEPT !.op = "hooks_import", !.pc = "m_get",
                                                           !.alias = 1, !.config = config]]
       \/ /\ trip.stage = "imported"
          /\ hreq' = [hreq EXCEPT ![t] = [HIdle EXCEPT !.op = "hooks_export", !.pc = "x_get",
                                                        !.alias = 1]]
       \/ /\ trip.stage = "exported"
          /\ hreq' = [hreq EXCEPT ![t] =
                [HIdle EXCEPT !.op = "hooks_import", !.pc = "m_get", !.alias = 1,
                              !.config = from_json(to_json(trip.exported))]]
    /\ UNCHANGED <<profile_files, home_dirs, registry_lock, now, trip>>
    /\ UNCHANGED <<allocVars, proxyVars, ptyVars, attachVars, daemonVars, usageVars, telemetryVars, besideTrip>>

\* hooks::import, "Load profile"
ImportGet(t) ==
    /\ hreq[t].pc = "m_get"
    /\ hreq' = [hreq EXCEPT ![t] =
          IF IsSome(get(profile_files, hreq[t].alias))
          THEN [@ EXCEPT !.pc = "m_lock", !.profile = get(profile_files, hreq[t].alias)]
          ELSE HReturn(@, Error(PROFILE_NOT_FOUND))]
    /\ UNCHANGED <<profile_files, home_dirs, registry_lock, now, hcalls, trip>>
    /\ UNCHANGED <<allocVars, proxyVars, ptyVars, attachVars, daemonVars, usageVars, telemetryVars, besideTrip>>

\* hooks::import: agent_registry.lock().await, supports_hooks, the guard dropped
ImportLookup(t) ==
    /\ hreq[t].pc = "m_lock"
    /\ registry_lock = 0
    /\ hreq' = [hreq EXCEPT ![t].pc = "m_update"]
    /\ UNCHANGED <<profile_files, home_dirs, registry_lock, now, hcalls, trip>>
    /\ UNCHANGED <<allocVars, proxyVars, ptyVars, attachVars, daemonVars, usageVars, telemetryVars, besideTrip>>

\* hooks::import: the hooks_config of the updated profile
imported(config) == IF is_empty(config) THEN None ELSE Some(config)

\* hooks::import, "Update profile with new hooks config"
ImportUpdate(t) ==
    /\ hreq[t].pc = "m_update"
    /\ \E u \in update(profile_files, hreq[t].alias,
                       [Unwrap(hreq[t].profile) EXCEPT
                           !.hooks_config = imported(hreq[t].config)]) :
          /\ profile_files' = u.fs
          /\ hreq' = [hreq EXCEPT ![t] =
                HReturn(@, IF u.ok THEN Success ELSE Error(INTERNAL_ERROR))]
          /\ trip' = IF ~u.ok THEN trip
                     ELSE IF trip.stage = "none"
                     THEN [trip EXCEPT !.stage = "imported",
                                       !.first = Some(u.fs[hreq[t].alias].hooks_config)]
                     ELSE [trip EXCEPT !.stage = "reimported"]
    /\ UNCHANGED <<home_dirs, registry_lock, now, hcalls>>
    /\ UNCHANGED <<allocVars, proxyVars, ptyVars, attachVars, daemonVars, usageVars, telemetryVars, besideTrip>>

\* hooks::export, that is hooks::list
HooksExport(t) ==
    /\ hreq[t].pc = "x_get"
    /\ IF IsSome(get(profile_files, hreq[t].alias))
       THEN LET hooks_config ==
                    unwrap_or_default(Unwrap(get(profile_files, hreq[t].alias)).hooks_config)
            IN /\ hreq' = [hreq EXCEPT ![t] =
                     [HReturn(@, [kind |-> "Hooks", code |-> 0]) EXCEPT !.config = hooks_config]]
               /\ trip' = [trip EXCEPT !.stage = "exported", !.exported = hooks_config]
       ELSE /\ hreq' = [hreq EXCEPT ![t] = HReturn(@, Error(PROFILE_NOT_FOUND))]
            /\ trip' = trip
    /\ UNCHANGED <<profile_files, home_dirs, registry_lock, now, hcalls>>
    /\ UNCHANGED <<allocVars, proxyVars, ptyVars, attachVars, daemonVars, usageVars, telemetryVars, besideTrip>>

\* the client of the trip, and a profile for alias 1 that is created, gets
\* hooks added and is deleted on the other connection before the trip starts
NextHooks ==
    \/ \E t \in TaskIds : /\ HandlerCall(t)
                          /\ t # 1
                          /\ trip.stage = "none" /\ hreq[1].pc = "idle"
                          /\ hreq'[t].op \in {"create", "hooks_add", "delete"}
                          /\ hreq'[t].alias = 1
    \/ \E t \in TaskIds : CreateLock(t)
    \/ \E t \in TaskIds : CreateExists(t)
    \/ \E t \in TaskIds : CreateWrite(t)
    \/ \E t \in TaskIds : DeleteCheck(t)
    \/ \E t \in TaskIds : DeleteRemove(t)
    \/ \E t \in TaskIds : HooksGet(t)
    \/ \E t \in TaskIds : RegistryLookup(t)
    \/ \E t \in TaskIds : HooksUpdate(t)
    \/ \E t \in TaskIds : TripCall(t) /\ \A u \in TaskIds : hreq[u].pc = "idle"
    \/ \E t \in TaskIds : ImportGet(t)
    \/ \E t \in TaskIds : ImportLookup(t)
    \/ \E t \in TaskIds : ImportUpdate(t)
    \/ \E t \in TaskIds : HooksExport(t)

----------------------------------------------------------------------------
(* main.rs, http/server.rs, config.rs: the port of the HTTP task.  main     *)
(* reads daemon.http_port from the configuration, whose default is 0, and   *)
(* spawns run_http_server with it whatever it is; run_http_server binds     *)
(* 127.0.0.1:port whatever it is, and the system gives a bind to port 0 a   *)
(* free port of its own choice.                                             *)

\* the values of daemon.http_port tried: the default, and a port chosen
HttpPorts == {0, 8765}
\* the ports the system may give to a bind to port 0
EphemeralPorts == {49152}

\* no configuration read yet, nothing bound
ListenNone == [http_port |-> None, bound |-> None]

InitListen == listener = ListenNone

\* TcpListener::bind(127.0.0.1:port): the ports it may bind; none of them is
\* bound when the bind fails
bind(port) == IF port = 0 THEN EphemeralPorts ELSE {port}

\* the HTTP task: main has read http_port and spawned run_http_server with
\* it; the task binds, and serves if the bind succeeded
HttpListen ==
    /\ http = "starting"
    /\ main.pc # "exited"
    /\ \E http_port \in HttpPorts :
           \/ \E port \in bind(http_port) :
                  /\ listener' = [http_port |-> Some(http_port), bound |-> Some(port)]
                  /\ http' = "serving"
           \/ /\ listener' = [http_port |-> Some(http_port), bound |-> None]
              /\ http' = "done"
    /\ UNCHANGED <<main, idle_timeout, shutdown_flag, watchdog, clock, ipc, chan, files,
                   shutdownLog>>
    /\ UNCHANGED <<allocVars, proxyVars, ptyVars, attachVars, usageVars, telemetryVars, profileVars, besideListen>>

----------------------------------------------------------------------------
(* terminal/manager.rs: the two RwLocks of the TerminalSessionManager,      *)
(* sessions and profile_sessions.  A guard is held from its .await to the   *)
(* end of its block.  A read is granted when no writer holds the lock, a    *)
(* write when nobody holds it (tokio's RwLock also makes a reader wait      *)
(* behind a writer that waits, which blocks more, not less).  One action is *)
(* one stretch of a call between two acquisitions.                          *)

\* manager calls in all
MaxMgrCalls == 4

Unlocked == [writer |-> 0, readers |-> {}]
can_read(l) == l.writer = 0
can_write(l) == l.writer = 0 /\ l.readers = {}

MgrIdle == [op |-> "none", pc |-> "idle", alias |-> 0, sid |-> 0]

InitMgr ==
    mgr = [sessions |-> Unlocked, profile_sessions |-> Unlocked,
           task |-> [t \in TaskIds |-> MgrIdle], calls |-> 0]

MgrOps == {"create_session", "get_session_for_profile", "cleanup_terminated", "terminate_all"}
MgrFirstPc(op) ==
    CASE op = "create_session" -> "c_index_read"
      [] op = "get_session_for_profile" -> "g_index_read"
      [] op = "cleanup_terminated" -> "u_sessions_write"
      [] op = "terminate_all" -> "a_sessions_read"

\* a caller enters one of the four functions
MgrCall(t) ==
    /\ mgr.task[t].pc = "idle"
    /\ mgr.calls < MaxMgrCalls
    /\ \E op \in MgrOps, a \in Aliases :
          /\ op = "create_session" =>
                Len(sess) + Cardinality({u \in TaskIds :
                            mgr.task[u].pc \in {"c_index_read", "c_sessions_read",
                                                "c_sessions_write"}}) < MaxSessions
          /\ mgr' = [mgr EXCEPT !.calls = @ + 1,
                                !.task[t] = [MgrIdle EXCEPT !.op = op, !.pc = MgrFirstPc(op),
                                                            !.alias = a]]
    /\ UNCHANGED ptyVars
    /\ UNCHANGED <<allocVars, proxyVars, attachVars, daemonVars, usageVars, telemetryVars, profileVars, besideMgr>>

\* create_session: profile_sessions.read().await and the lookup; with no
\* entry for the alias the block ends and the guard is dropped
MgrCreateIndexRead(t) ==
    /\ mgr.task[t].pc = "c_index_read"
    /\ can_read(mgr.profile_sessions)
    /\ mgr' = IF mgr.task[t].alias \in DOMAIN profile_sessions
              THEN [mgr EXCEPT !.profile_sessions.readers = @ \cup {t},
                               !.task[t].pc = "c_sessions_read"]
              ELSE [mgr EXCEPT !.task[t].pc = "c_sessions_write"]
    /\ UNCHANGED ptyVars
    /\ UNCHANGED <<allocVars, proxyVars, attachVars, daemonVars, usageVars, telemetryVars, profileVars, besideMgr>>

\* create_session: sessions.read().await under the profile_sessions guard,
\* the is_terminated check, and the end of the block: both guards dropped
MgrCreateSessionsRead(t) ==
    /\ mgr.task[t].pc = "c_sessions_read"
    /\ can_read(mgr.sessions)
    /\ mgr' = [mgr EXCEPT
          !.profile_sessions.readers = @ \ {t},
          !.task[t] = IF has_active_session(profile_sessions, sessions, sess, mgr.task[t].alias)
                      THEN MgrIdle
                      ELSE [@ EXCEPT !.pc = "c_sessions_write"]]
    /\ UNCHANGED ptyVars
    /\ UNCHANGED <<allocVars, proxyVars, attachVars, daemonVars, usageVars, telemetryVars, profileVars, besideMgr>>

\* create_session, "Store the session": sessions.write().await, insert
MgrCreateSessionsWrite(t) ==
    /\ mgr.task[t].pc = "c_sessions_write"
    /\ can_write(mgr.sessions)
    /\ sess' = Append(sess, TerminalSessionNew(mgr.task[t].alias))
    /\ sessions' = sessions \cup {Len(sess) + 1}
    /\ mgr' = [mgr EXCEPT !.task[t].pc = "c_index_write", !.task[t].sid = Len(sess) + 1]
    /\ UNCHANGED <<profile_sessions, ptask>>
    /\ UNCHANGED <<allocVars, proxyVars, attachVars, daemonVars, usageVars, telemetryVars, profileVars, besideMgr>>

\* create_session: profile_sessions.write().await, insert, spawn the PTY task
MgrCreateIndexWrite(t) ==
    /\ mgr.task[t].pc = "c_index_write"
    /\ can_write(mgr.profile_sessions)
    /\ profile_sessions' = MapInsert(profile_sessions, mgr.task[t].alias, mgr.task[t].sid)
    /\ sess' = [sess EXCEPT ![mgr.task[t].sid].pc = "spawn"]
    /\ mgr' = [mgr EXCEPT !.task[t] = MgrIdle]
    /\ UNCHANGED <<sessions, ptask>>
    /\ UNCHANGED <<allocVars, proxyVars, attachVars, daemonVars, usageVars, telemetryVars, profileVars, besideMgr>>

\* get_session_for_profile: profile_sessions.read().await and the lookup;
\* None is returned if the alias has no entry
MgrGetIndexRead(t) ==
    /\ mgr.task[t].pc = "g_index_read"
    /\ can_read(mgr.profile_sessions)
    /\ mgr' = IF mgr.task[t].alias \in DOMAIN profile_sessions
              THEN [mgr EXCEPT !.profile_sessions.readers = @ \cup {t},
                               !.task[t].pc = "g_sessions_read"]
              ELSE [mgr EXCEPT !.task[t] = MgrIdle]
    /\ UNCHANGED ptyVars
    /\ UNCHANGED <<allocVars, proxyVars, attachVars, daemonVars, usageVars, telemetryVars, profileVars, besideMgr>>

\* get_session_for_profile: sessions.read().await under the profile_sessions
\* guard, get, return
MgrGetSessionsRead(t) ==
    /\ mgr.task[t].pc = "g_sessions_read"
    /\ can_read(mgr.sessions)
    /\ mgr' = [mgr EXCEPT !.profile_sessions.readers = @ \ {t}, !.task[t] = MgrIdle]
    /\ UNCHANGED ptyVars
    /\ UNCHANGED <<allocVars, proxyVars, attachVars, daemonVars, usageVars, telemetryVars, profileVars, besideMgr>>

\* cleanup_terminated: sessions.write().await
MgrCleanupSessionsWrite(t) ==
    /\ mgr.task[t].pc = "u_sessions_write"
    /\ can_write(mgr.sessions)
    /\ mgr' = [mgr EXCEPT !.sessions.writer = t, !.task[t].pc = "u_index_write"]
    /\ UNCHANGED ptyVars
    /\ UNCHANGED <<allocVars, proxyVars, attachVars, daemonVars, usageVars, telemetryVars, profileVars, besideMgr>>

\* cleanup_terminated: profile_sessions.write().await under the sessions
\* guard, the removals, return
MgrCleanupIndexWrite(t) ==
    /\ mgr.task[t].pc = "u_index_write"
    /\ can_write(mgr.profile_sessions)
    /\ sessions' = cleanup_sessions(sessions, sess)
    /\ profile_sessions' = cleanup_index(profile_sessions, sessions, sess)
    /\ mgr' = [mgr EXCEPT !.sessions.writer = 0, !.task[t] = MgrIdle]
    /\ UNCHANGED <<sess, ptask>>
    /\ UNCHANGED <<allocVars, proxyVars, attachVars, daemonVars, usageVars, telemetryVars, profileVars, besideMgr>>

\* terminate_all: sessions.read().await
MgrTerminateAllRead(t) ==
    /\ mgr.task[t].pc = "a_sessions_read"
    /\ can_read(mgr.sessions)
    /\ mgr' = [mgr EXCEPT !.sessions.readers = @ \cup {t}, !.task[t].pc = "a_loop"]
    /\ UNCHANGED ptyVars
    /\ UNCHANGED <<allocVars, proxyVars, attachVars, daemonVars, usageVars, telemetryVars, profileVars, besideMgr>>

\* terminate_all: the loop under the sessions guard, return
MgrTerminateAllLoop(t) ==
    /\ mgr.task[t].pc = "a_loop"
    /\ \A id \in sessions : is_terminated(sess[id]) \/ can_send(sess, id)
    /\ sess' = terminate_all(sessions, sess)
    /\ mgr' = [mgr EXCEPT !.sessions.readers = @ \ {t}, !.task[t] = MgrIdle]
    /\ UNCHANGED <<sessions, profile_sessions, ptask>>
    /\ UNCHANGED <<allocVars, proxyVars, attachVars, daemonVars, usageVars, telemetryVars, profileVars, besideMgr>>

\* a step of the call of task t, after its entry
MgrStep(t) ==
    \/ MgrCreateIndexRead(t)
    \/ MgrCreateSessionsRead(t)
    \/ MgrCreateSessionsWrite(t)
    \/ MgrCreateIndexWrite(t)
    \/ MgrGetIndexRead(t)
    \/ MgrGetSessionsRead(t)
    \/ MgrCleanupSessionsWrite(t)
    \/ MgrCleanupIndexWrite(t)
    \/ MgrTerminateAllRead(t)
    \/ MgrTerminateAllLoop(t)

----------------------------------------------------------------------------
(* The specifications: one per part of the daemon, all from the same state *)

\* the parts added to the daemon after the profile store
InitRest == InitRegistry /\ InitWs /\ InitExec /\ InitTrip /\ InitListen /\ InitMgr

Init ==
    /\ InitAlloc
    /\ InitProxy
    /\ InitPty
    /\ InitAttach
    /\ InitDaemon
    /\ InitUsage
    /\ InitTelemetry
    /\ InitProfiles
    /\ InitRest

NextAlloc == AllocCall \/ ReleaseCall

\* any sequence of allocate and release calls on one allocator
SpecAlloc == Init /\ [][NextAlloc]_vars

\* the allocator near saturation: the ports of the range, one alias more than
\* there are ports, and at most MaxFree ports free at the start
MaxFree == 2
NumPorts == MAX_PORT - BASE_PORT + 1
ManyAliases == 1..(NumPorts + 1)
LateAliases == (NumPorts - MaxFree + 1)..(NumPorts + 1)

\* the allocator after allocate(1, None), ..., allocate(k, None)
\* (each call takes the lowest free port)
Prefilled(k) ==
    [allocated |-> BASE_PORT..(BASE_PORT + k - 1),
     assignments |-> [a \in 1..k |-> BASE_PORT + a - 1]]

\* ProxyManager::new, then proxies started for the first k profiles
InitSaturated ==
    /\ \E k \in (NumPorts - MaxFree)..NumPorts :
          /\ port_allocator = Prefilled(k)
          /\ held = [a \in ManyAliases |->
                        IF a <= k THEN Some(Prefilled(k).assignments[a]) ELSE None]
    /\ allocLog = NoCall
    /\ InitProxy
    /\ InitPty
    /\ InitAttach
    /\ InitDaemon
    /\ InitUsage
    /\ InitTelemetry
    /\ InitProfiles
    /\ InitRest

NextSaturated ==
    \/ \E a \in LateAliases, p \in Preferred : DoAllocate(a, p)
    \/ \E a \in LateAliases : DoRelease(a)

\* allocate and release on an allocator that is full or nearly so
SpecSaturated == InitSaturated /\ [][NextSaturated]_vars

\* the proxy supervisor under concurrent requests
SpecProxy == Init /\ [][NextProxy]_vars

\* the proxy supervisor under concurrent ProxyStart and ProxyStop requests for
\* one alias
SpecStartStop == Init /\ [][NextStartStop]_vars

\* the terminal session manager under concurrent requests
SpecPty == Init /\ [][NextPty]_vars

\* one terminal session and the clients that attach to it
SpecAttach == Init /\ [][NextAttach]_vars

SpecResize == Init /\ [][NextResize]_vars

\* the daemon from the call of server::run to its exit, with the IPC clients,
\* the HTTP shutdown route, and one terminal session created over HTTP; the
\* daemon's own tasks stop when it has exited, its children do not
NextDaemon ==
    \/ RunStart
    \/ WatchdogSample
    \/ Tick
    \/ IpcSend
    \/ LoopTop
    \/ Recv
    \/ Handle
    \/ HttpBind
    \/ HttpShutdownRequest
    \/ HttpStop
    \/ HttpSignal
    \/ HttpAwait
    \/ TerminateAll
    \/ StopAll
    \/ RemoveFiles
    \/ RuntimeDrop
    \/ http = "serving" /\ ~chan.http_shutdown /\ Len(sess) = 0 /\ CallCreate(1)
    \/ main.pc # "exited" /\ CreateCheck(1)
    \/ main.pc # "exited" /\ CreateStore(1)
    \/ main.pc # "exited" /\ CreateIndex(1)
    \/ main.pc # "exited" /\ \E s \in SessionIds : PtySpawn(s)
    \/ main.pc # "exited" /\ \E s \in SessionIds : PtySetRunning(s)
    \/ main.pc # "exited" /\ \E s \in SessionIds : PtyBridge(s)
    \/ main.pc # "exited" /\ \E s \in SessionIds : WriterRecv(s)
    \/ main.pc # "exited" /\ \E s \in SessionIds : PtyWait(s)
    \/ \E s \in SessionIds : ChildExit(s)

SpecDaemon == Init /\ [][NextDaemon]_vars

\* the runtime runs every task that is ready, timers fire, time passes, and a
\* request handler returns; no client has to send anything, and no child has
\* to exit
SpecIdle ==
    /\ Init
    /\ [][NextDaemon]_vars
    /\ WF_vars(RunStart)
    /\ WF_vars(WatchdogSample)
    /\ WF_vars(Tick)
    /\ WF_vars(LoopTop)
    /\ WF_vars(Recv)
    /\ WF_vars(Handle)
    /\ WF_vars(HttpBind)
    /\ WF_vars(HttpStop)
    /\ WF_vars(HttpSignal)
    /\ WF_vars(HttpAwait)
    /\ WF_vars(TerminateAll)
    /\ WF_vars(StopAll)
    /\ WF_vars(RemoveFiles)
    /\ WF_vars(RuntimeDrop)
    /\ WF_vars(CreateCheck(1))
    /\ WF_vars(CreateStore(1))
    /\ WF_vars(CreateIndex(1))
    /\ \A s \in SessionIds :
          /\ WF_vars(main.pc # "exited" /\ PtySpawn(s))
          /\ WF_vars(main.pc # "exited" /\ PtySetRunning(s))
          /\ WF_vars(main.pc # "exited" /\ PtyBridge(s))
          /\ WF_vars(main.pc # "exited" /\ WriterRecv(s))
          /\ WF_vars(main.pc # "exited" /\ PtyWait(s))

NextUsage ==
    \/ \E path \in Paths : AppendChar(path)
    \/ \E path \in Paths : Truncate(path)
    \/ \E path \in Paths : WatchEvent(path)

\* the usage watcher and the agents that write the files it watches
SpecUsage == Init /\ [][NextUsage]_vars

NextTelemetry ==
    \/ \E t \in TaskIds : RecordCall(t)
    \/ \E t \in TaskIds : RecordAppend(t)
    \/ \E t \in TaskIds : RecordLoad(t)
    \/ \E t \in TaskIds : RecordSave(t)

\* the telemetry collector under overlapping record_session calls
SpecTelemetry == Init /\ [][NextTelemetry]_vars

\* the profile store under overlapping requests
SpecProfiles == Init /\ [][NextProfiles]_vars

\* the registry client under overlapping requests
SpecRegistry == Init /\ [][NextRegistry]_vars

SpecWs == Init /\ [][NextWs]_vars

SpecExec == Init /\ [][NextExec]_vars

SpecHooks == Init /\ [][NextHooks]_vars

----------------------------------------------------------------------------
\* C4: a successful allocate returns a port of [8080, 8180] that no other alias
\* held when the call was made, and an alias that was given a port and has not
\* released it is given the same port again.
C4_AllocateInRangeFreeStable ==
    (allocLog.op = "allocate" /\ allocLog.result.ok) =>
        /\ allocLog.result.port >= 8080
        /\ allocLog.result.port <= 8180
        /\ \A other \in DOMAIN allocLog.before.assignments :
              other # allocLog.alias =>
                  allocLog.before.assignments[other] # allocLog.result.port
        /\ IsSome(allocLog.prev) => allocLog.result.port = Unwrap(allocLog.prev)

\* a second allocate for an alias that holds a port, while the other alias holds one too
C4_Witness ==
    /\ allocLog.op = "allocate"
    /\ allocLog.result.ok
    /\ IsSome(allocLog.prev)
    /\ \E other \in DOMAIN allocLog.before.assignments : other # allocLog.alias

\* C3: each alias has at most one running sidecar process, and no two tracked
\* proxy instances hold the same port.
C3_OneProxyPerAliasUniquePort ==
    /\ \A a \in Aliases : Cardinality(AliveOf(a)) <= 1
    /\ \A a, b \in DOMAIN instances : a # b => instances[a].port # instances[b].port

\* the two halves of C3, each refuted on its own
C3_OneProcessPerAlias == \A a \in Aliases : Cardinality(AliveOf(a)) <= 1
C3_UniquePort ==
    \A a, b \in DOMAIN instances : a # b => instances[a].port # instances[b].port

\* C1: for every profile alias, at most one tracked terminal session with that
\* alias is in a non-terminated state (Starting or Running).
C1_OneActiveSessionPerProfile ==
    \A a \in Aliases :
        Cardinality({id \in sessions : sess[id].profile_alias = a
                                         /\ ~is_terminated(sess[id])}) <= 1

IsBinary(f) == f.kind = "binary"

\* C2: a client that has attached has received, as its first binary frame,
\* the whole scrollback the handler read at attach time (at most the scrollback
\* limit), and no byte read from the PTY after that moment in or before it.
C2_ReplayBeforeLive ==
    \A c \in Clients :
        client[c].pc = "live" =>
            LET bins == SelectSeq(client[c].frames, IsBinary) IN
            /\ Len(client[c].snap) <= MaxScrollback
            /\ client[c].snap # <<>> => (bins # <<>> /\ bins[1].data = client[c].snap)
            /\ \A i \in DOMAIN bins :
                  (\E k \in DOMAIN bins[i].data : bins[i].data[k] > client[c].attachAt)
                      => (client[c].snap # <<>> => i > 1)

\* a client got a replay that had been trimmed to the limit, then a live byte
C2_Witness ==
    \E c \in Clients :
        /\ client[c].pc = "live"
        /\ Len(client[c].snap) = MaxScrollback
        /\ client[c].snap[1] > 1
        /\ LET bins == SelectSeq(client[c].frames, IsBinary) IN
           /\ Len(bins) >= 2
           /\ \E k \in DOMAIN bins[2].data : bins[2].data[k] > client[c].attachAt

\* C5: once the daemon has exited, no child process it spawned is running:
\* no PTY session child and no sidecar proxy.
C5_NoChildLeftRunning ==
    main.pc = "exited" =>
        /\ \A s \in DOMAIN sess : sess[s].child # "alive"
        /\ \A pid \in DOMAIN procs : ~procs[pid].alive

\* C6 as stated: whenever no request has arrived for longer than the
\* configured idle timeout, the daemon eventually exits with the PID, endpoint
\* and socket files removed.
C6_IdleExits ==
    (IsSome(idle_timeout) /\ clock.idle > Unwrap(idle_timeout))
        ~> (main.pc = "exited" /\ files = {})

ShutdownOrder == <<"http_signal", "http_done", "terminate_all", "stop_all", "remove_files">>

\* C7: the shutdown steps are taken in the order: HTTP listener signalled,
\* HTTP task finished, terminate_all, stop_all, files removed; and when the
\* daemon has exited none has been skipped.
C7_ShutdownOrder ==
    /\ Len(shutdownLog) <= Len(ShutdownOrder)
    /\ shutdownLog = SubSeq(ShutdownOrder, 1, Len(shutdownLog))
    /\ main.pc = "exited" => shutdownLog = ShutdownOrder
    /\ main.pc = "exited" => http = "done" /\ files = {}

\* the daemon has exited after server::run returned an error, with a terminal
\* session that terminate_all marked
C7_Witness ==
    /\ main.pc = "exited"
    /\ main.result = "err"
    /\ \E s \in DOMAIN sess : sess[s].state = Terminated(None)

C9_OneEventPerKey ==
    \A i \in DOMAIN events :
        /\ \A j \in DOMAIN events : KeyOf(events[i]) = KeyOf(events[j]) => i = j
        /\ events[i].tokens = uwatch.first[KeyOf(events[i])]

\* an entry was dropped whose key had an event, with other token counts
C9_Witness ==
    \E i \in DOMAIN events :
        \E e \in uwatch.dropped :
            KeyOf(e) = KeyOf(events[i]) /\ e.tokens # events[i].tokens

\* C10: when no record_session call is in progress, aggregates.total_sessions
\* equals the number of complete lines in sessions.jsonl.
C10_TotalEqualsLines ==
    (\A t \in TaskIds : rtask[t].pc = "idle") =>
        total_sessions = Some(sessions_log.complete)

\* C11: a record_session call that has appended its line to sessions.jsonl
\* reports success, also when the aggregate update after the append failed.
C11_AppendedReportsSuccess ==
    \A t \in TaskIds :
        (rtask[t].pc = "idle" /\ rtask[t].appended) => rtask[t].ret = Some("ok")

\* C12: stop(alias) returns success whichever way it took: no instance
\* tracked for the alias, the process already exited, the process killed after
\* the grace window, or try_wait failing.
C12_StopAlwaysSucceeds ==
    \A t \in TaskIds :
        (task[t].pc = "idle" /\ task[t].path # "") => task[t].ret = Some(Ok(0))

\* one stop has returned after killing its process, another for an alias
\* with no instance
C12_Witness ==
    \E t1, t2 \in TaskIds :
        /\ task[t1].pc = "idle" /\ task[t1].path = "killed"
        /\ task[t2].pc = "idle" /\ task[t2].path = "untracked"

\* C13: when ProxyStop for an alias returns after its process exited or was
\* killed, and no other request for the alias is in progress, no instance is
\* tracked for the alias, no sidecar of the alias is running, and its port is
\* released.
C13_StopStopsAndReleases ==
    [][\A t \in TaskIds :
          (/\ task[t].op = "stop" /\ task[t].pc = "p_release"
           /\ task[t].path \in {"exited", "killed"}
           /\ task'[t].pc = "idle"
           /\ \A u \in TaskIds \ {t} : task[u].pc = "idle")
          => /\ task[t].alias \notin DOMAIN instances'
             /\ \A pid \in DOMAIN procs' :
                   ~(procs'[pid].alive /\ procs'[pid].alias = task[t].alias)
             /\ task[t].alias \notin DOMAIN port_allocator'.assignments]_vars

\* C14: once the start that stored an instance has made its probe, if the
\* instance's sidecar is running and accepts connections within 1 s of its
\* spawn, the instance's status is Running.
C14_AcceptingBecomesRunning ==
    \A a \in DOMAIN instances :
        (/\ procs[instances[a].pid].alive
         /\ procs[instances[a].pid].accepts \in {"by_probe", "late"}
         /\ \A t \in TaskIds :
               task[t].alias = a => task[t].pc \notin {"s_probe", "s_mark"})
        => instances[a].status = "Running"


\* the profile home of an alias
HomeOf(a) == expand_template(SourceHome, a, AgentId)

\* a step in which task t's delete removes the file, inspect answers, create
\* passes its existence test, create writes the record
Steps(t) == hreq'[t] # hreq[t]
DeleteSucceeds(t) == Steps(t) /\ hreq[t].pc = "d_remove" /\ hreq'[t].ret = Some(Success)
InspectsMissing(t) ==
    Steps(t) /\ hreq[t].pc = "i_get" /\ hreq[t].alias \notin DOMAIN profile_files
CreateFindsNone(t) ==
    Steps(t) /\ hreq[t].pc = "c_check" /\ hreq[t].alias \notin DOMAIN profile_files
CreateReturns(t) == Steps(t) /\ hreq[t].pc = "c_write"

\* what C15 says of delete, get and create, apart from the state of the home
DeleteGetCreate(t) ==
    /\ DeleteSucceeds(t) => hreq[t].alias \notin DOMAIN profile_files'
    /\ InspectsMissing(t) => hreq'[t].ret = Some(Error(PROFILE_NOT_FOUND))
    /\ CreateFindsNone(t) => hreq'[t].pc = "c_write"
    /\ CreateReturns(t) =>
          /\ hreq'[t].ret = Some(Success)
          /\ hreq[t].alias \in DOMAIN profile_files'
          /\ profile_files'[hreq[t].alias].home = HomeOf(hreq[t].alias)
          /\ profile_files'[hreq[t].alias].total_runs = 0
          /\ HomeOf(hreq[t].alias) \in DOMAIN home_dirs'

\* C15: once delete(a) has succeeded there is no record of a, so that get(a)
\* reports not found and create(a) succeeds; the profile created has a fresh
\* metadata.home, a directory holding nothing of an earlier profile.
C15_DeleteThenCreateFresh ==
    [][\A t \in TaskIds :
          /\ DeleteGetCreate(t)
          /\ CreateReturns(t) => ~home_dirs'[HomeOf(hreq[t].alias)]]_vars

\* C15, amended: once delete(a) has succeeded there is no record of a, so that
\* get(a) reports not found and create(a) succeeds; the profile created has a
\* zero total_runs and the home the template gives for a, which is the
\* directory delete preserved, with what it held.
C15_DeleteThenCreateSameHome ==
    [][\A t \in TaskIds :
          /\ DeleteGetCreate(t)
          /\ DeleteSucceeds(t) => home_dirs' = home_dirs
          /\ (CreateFindsNone(t) /\ HomeOf(hreq[t].alias) \in DOMAIN home_dirs) =>
                home_dirs'[HomeOf(hreq[t].alias)] = home_dirs[HomeOf(hreq[t].alias)]]_vars

\* a profile was run and deleted, and then created again: its home holds the
\* files of the run
C15_Witness ==
    \E t1, t2 \in TaskIds :
        /\ hreq[t1].pc = "idle" /\ hreq[t1].op = "delete" /\ hreq[t1].ret = Some(Success)
        /\ hreq[t2].pc = "idle" /\ hreq[t2].op = "create" /\ hreq[t2].ret = Some(Success)
        /\ hreq[t1].alias = hreq[t2].alias
        /\ hreq[t2].alias \in DOMAIN profile_files
        /\ profile_files[hreq[t2].alias].total_runs = 0
        /\ home_dirs[HomeOf(hreq[t2].alias)]


\* C16: create(alias) fails with ProfileExists (code 1004) whenever a record
\* for alias already exists, and leaves the record as it was, also when
\* another create for the alias is in progress.
C16_CreateFailsWithProfileExists ==
    [][\A t \in TaskIds :
          (Steps(t) /\ hreq[t].pc = "c_check" /\ hreq[t].alias \in DOMAIN profile_files) =>
              /\ hreq'[t].ret = Some(Error(PROFILE_EXISTS))
              /\ profile_files' = profile_files]_vars


\* C17: the session records of sessions.jsonl are in non-decreasing order of
\* started_at, whatever runs were made and however they overlapped.
C17_SessionsMonotone ==
    \A i, j \in DOMAIN sessions_log.started :
        i < j => sessions_log.started[i] <= sessions_log.started[j]


\* C18: the total_runs stored for a profile never decreases: no step that
\* rewrites the record of a profile (mark_used, or the update of a hooks
\* change), in any interleaving, stores a lower total_runs than the record
\* held before the step.
C18_TotalRunsMonotone ==
    [][\A a \in DOMAIN profile_files \cap DOMAIN profile_files' :
          profile_files'[a].total_runs >= profile_files[a].total_runs]_vars


\* every byte read from the PTY of session s is in its scrollback or on its
\* way there: none was dropped or trimmed
ReadBytesKept(s) ==
    1..reader[s].produced \subseteq
        ({scrollback[s][i] : i \in DOMAIN scrollback[s]}
            \cup UNION {{sbchan[s][i][j] : j \in DOMAIN sbchan[s][i]} : i \in DOMAIN sbchan[s]})

\* C19: a client that attached when the PTY had emitted some bytes (AAA, then
\* BBB) and nothing else, and that has been sent all there is to send, has
\* received, as its first binary frame, exactly the bytes read from the PTY so
\* far, in order and none missing, before any live byte.
C19_FirstFrameIsAllOutput ==
    \A c \in Clients :
        (/\ client[c].pc = "live"
         /\ client[c].attachAt \in 1..MaxScrollback
         /\ reader[client[c].sid].produced = client[c].attachAt
         /\ reader[client[c].sid].pc # "send"
         /\ client[c].rx = <<>> /\ ~client[c].lagged
         /\ ReadBytesKept(client[c].sid)) =>
            LET bins == SelectSeq(client[c].frames, IsBinary) IN
            /\ bins # <<>>
            /\ bins[1].data = [i \in 1..client[c].attachAt |-> i]


\* C20: when every port of [8080, 8180] is allocated to some other alias,
\* allocate for an alias that holds none returns a failure and leaves the
\* allocator as it was.
C20_SaturatedAllocateFails ==
    (/\ allocLog.op = "allocate"
     /\ allocLog.before.allocated = 8080..8180
     /\ allocLog.alias \notin DOMAIN allocLog.before.assignments) =>
        /\ ~allocLog.result.ok
        /\ port_allocator = allocLog.before

\* an allocate for a new alias, with a preferred port of the range, met a full
\* allocator
C20_Witness ==
    /\ allocLog.op = "allocate"
    /\ allocLog.before.allocated = 8080..8180
    /\ Cardinality(DOMAIN allocLog.before.assignments) = 101
    /\ allocLog.alias \notin DOMAIN allocLog.before.assignments
    /\ allocLog.preferred = Some(8080)
    /\ ~allocLog.result.ok


\* the ports of [8080, 8180] that no alias held when the last call was made
FreeBefore == {p \in 8080..8180 : \A a \in DOMAIN allocLog.before.assignments :
                                      allocLog.before.assignments[a] # p}

\* C21: allocate(alias, preferred) returns the alias's existing assignment if
\* it has one; otherwise preferred, if it lies in [8080, 8180] and is free;
\* otherwise the lowest free port of the range; otherwise it fails.
C21_AllocateOrder ==
    allocLog.op = "allocate" =>
        IF allocLog.alias \in DOMAIN allocLog.before.assignments
        THEN allocLog.result = Ok(allocLog.before.assignments[allocLog.alias])
        ELSE IF IsSome(allocLog.preferred) /\ Unwrap(allocLog.preferred) \in FreeBefore
        THEN allocLog.result = Ok(Unwrap(allocLog.preferred))
        ELSE IF FreeBefore # {}
        THEN /\ allocLog.result.ok
             /\ allocLog.result.port \in FreeBefore
             /\ \A q \in FreeBefore : allocLog.result.port <= q
        ELSE ~allocLog.result.ok

\* a new alias asked for a port of the range that was taken and got the lowest
\* of two free ports
C21_Witness ==
    /\ allocLog.op = "allocate"
    /\ allocLog.alias \notin DOMAIN allocLog.before.assignments
    /\ allocLog.preferred = Some(8080)
    /\ Cardinality(FreeBefore) = 2
    /\ allocLog.result.ok
    /\ allocLog.result.port # 8080


\* a step of task t's registry call
SSteps(t) == sreq'[t] # sreq[t]

\* task t's sync, neither forced nor offline, starts less than 24 h (48 half
\* hours) after the last_sync of the lock file
StartsNotDue(t) ==
    /\ SSteps(t)
    /\ sreq[t].pc = "s_start" /\ ~sreq[t].force /\ ~sreq[t].offline
    /\ IsSome(lock_file)
    /\ IsSome(Unwrap(lock_file).last_sync)
    /\ wall - Unwrap(Unwrap(lock_file).last_sync) \in 0..47

C23_FailedSyncKeepsLock ==
    [][\A t \in TaskIds :
          /\ (SSteps(t) /\ sreq[t].pc \in {"s_start", "s_fetch", "s_download"}) =>
                lock_file' = lock_file
          /\ (SSteps(t) /\ sreq[t].pc \in {"s_fetch", "s_download"}
                        /\ sreq'[t].pc = "idle") =>
                /\ Unwrap(sreq'[t].ret).kind = "Error"
                /\ Unwrap(sreq'[t].ret).code = 3001
          /\ (SSteps(t) /\ sreq[t].pc = "s_status" /\ sreq[t].offline) =>
                /\ sreq'[t].ret = Some(RegistryStatus(load_lock(lock_file), TRUE))
                /\ lock_file' = lock_file]_vars

\* a sync failed after an earlier one had succeeded, and an offline sync
\* answered with the lock of the earlier one
C23_Witness ==
    \E t1, t2 \in TaskIds :
        /\ sreq[t1].pc = "idle" /\ sreq[t1].op = "sync" /\ sreq[t1].fetched
        /\ Unwrap(sreq[t1].ret).kind = "Error"
        /\ sreq[t2].pc = "idle" /\ sreq[t2].op = "sync" /\ sreq[t2].offline
        /\ IsSome(lock_file)
        /\ IsSome(Unwrap(lock_file).last_sync)
        /\ Unwrap(sreq[t2].ret).kind = "RegistryStatus"
        /\ Unwrap(sreq[t2].ret).commit = Unwrap(lock_file).commit
        /\ Unwrap(sreq[t2].ret).commit # remote.commit

\* the task is at an await of ProxyManager::stop with the write guard of
\* instances alive: the 100 ms sleep of the try_wait loop while the sidecar
\* has not exited, or the acquisition of the port allocator's lock
HoldsAcrossAwait(t) ==
    /\ instLock = t
    /\ \/ task[t].pc = "p_wait" /\ procs[task[t].pid].alive
       \/ task[t].pc = "p_release"

\* C24: no task is suspended at an await while it holds the lock on the
\* proxy supervisor's instances map (the stop grace window included).
C24_NoLockAcrossAwait == \A t \in TaskIds : ~HoldsAcrossAwait(t)

\* the topics the client has asked for cover the event
Interested(asked, event) == should_send(asked, event)

\* C25: an event of the bus goes to a subscriber that has asked for topics
\* with Subscribe only if its topic is among those it asks for now (the
\* Unsubscribes taken off), or "*" is.
C25_OnlySubscribedTopicsSent ==
    [][\A event \in BusEvents :
          (/\ ws.asked # {}
           /\ ws.event_rx # <<>> /\ Head(ws.event_rx) = event
           /\ ws'.sent = Append(ws.sent, event))
          => Interested(ws.asked, event)]_vars

\* the Session of the run that task t has in hand is in sessions.jsonl
RunRecorded(t) ==
    \E i \in DOMAIN sessions_log.started : sessions_log.started[i] = hreq[t].started_at

\* C26: within a run, mark_used is applied to the profile only after the
\* agent has been waited on and the Session of the run has been recorded.
C26_WaitRecordThenMarkUsed ==
    [][\A t \in TaskIds :
          (Steps(t) /\ hreq[t].op = "run" /\ profile_files' # profile_files)
          => RunRecorded(t)]_vars

\* the variables of the daemon's environment that the spec restores
Inherited(environ) == [key \in DOMAIN environ \cap Essential |-> environ[key]]

\* C27: the environment of a spawned agent is the daemon's values of PATH,
\* TERM, LANG, LC_ALL, USER and SHELL with the built environment on top, and
\* nothing else of the daemon's environment.
C27_ScrubbedEnvironment ==
    exec.pc = "spawned" => exec.child = Overlay(Inherited(exec.environ), exec.env)

\* no variable of the daemon other than the six is in the child's environment
\* unless the built environment sets it
NoOtherVariableReaches ==
    exec.pc = "spawned" =>
        \A key \in DOMAIN exec.child :
            key \in DOMAIN exec.env \/ (key \in Essential /\ exec.child[key] = exec.environ[key])

\* C28: after a client has imported a hooks configuration into a profile,
\* exported it and imported what the export gave, the hooks record stored
\* in the profile is the one that was stored after the first import.
C28_ImportExportImport ==
    (trip.stage = "reimported" /\ 1 \in DOMAIN profile_files)
    => Some(profile_files[1].hooks_config) = trip.first

\* the trip is over for a configuration with a timeout, a Url action and a
\* rule without actions
C28_Witness ==
    /\ trip.stage = "reimported"
    /\ 1 \in DOMAIN profile_files
    /\ trip.exported.stop = <<RuleAll>>
    /\ trip.exported.post_tool_use = <<RuleNone>>
    /\ trip.exported.pre_tool_use = <<RuleAll, RuleBash>>
    /\ profile_files[1].hooks_config = Some(trip.exported)

\* C29: once a client has sent a Resize to a session, info() on the session
\* reports the cols and rows of the last Resize sent, whether or not the
\* writer task has taken it and whatever the PTY has written.
C29_ResizeSeenByInfo ==
    \A id \in DOMAIN sess :
        IsSome(sess[id].resized) =>
            /\ info(sess, id).cols = Unwrap(sess[id].resized).cols
            /\ info(sess, id).rows = Unwrap(sess[id].resized).rows

\* a Resize is still in the input channel, no byte has been read from the
\* PTY, and info() has the new size
C29_Witness ==
    \E id \in DOMAIN sess :
        /\ IsSome(sess[id].resized)
        /\ sess[id].input # <<>> /\ Head(sess[id].input).kind = "Resize"
        /\ reader[id].produced = 0
        /\ info(sess, id).cols = 132 /\ info(sess, id).rows = 43

\* the last n elements of a sequence, all of it if it is shorter
LastBytes(seq, n) == IF Len(seq) <= n THEN seq ELSE SubSeq(seq, Len(seq) - n + 1, Len(seq))

\* C30: a scrollback never holds more than the limit (1 MiB, here
\* MaxScrollback), and it changes only by an append, which leaves in it the
\* last bytes, up to the limit, of what it held followed by the chunk
\* appended, in that order.
C30_ScrollbackKeepsNewest ==
    /\ [](\A s \in SessionIds : Len(scrollback[s]) <= MaxScrollback)
    /\ [][\A s \in SessionIds :
             scrollback'[s] # scrollback[s] =>
                 /\ sbchan[s] # <<>>
                 /\ scrollback'[s] = LastBytes(scrollback[s] \o Head(sbchan[s]), MaxScrollback)]_vars

\* a full scrollback has taken a chunk and dropped its oldest byte
C30_Witness ==
    \E s \in SessionIds :
        /\ Len(scrollback[s]) = MaxScrollback
        /\ scrollback[s][1] > 1
        /\ \A i \in 1..(MaxScrollback - 1) : scrollback[s][i + 1] = scrollback[s][i] + 1

----------------------------------------------------------------------------
(* The daemon with the port of its HTTP task                              *)

NextHttp ==
    \/ RunStart
    \/ WatchdogSample
    \/ Tick
    \/ IpcSend
    \/ LoopTop
    \/ Recv
    \/ Handle
    \/ HttpListen
    \/ HttpShutdownRequest
    \/ HttpStop
    \/ HttpSignal
    \/ HttpAwait
    \/ TerminateAll
    \/ StopAll
    \/ RemoveFiles
    \/ RuntimeDrop

SpecHttp == Init /\ [][NextHttp]_vars

\* C31: the HTTP listener exists only when an HTTP port is configured: when
\* daemon.http_port is 0, the HTTP task binds no TCP port and never serves.
C31_NoListenerWhenPortZero ==
    listener.http_port = Some(0) => listener.bound = None /\ http # "serving"

\* the exit code of the status child.wait() returns: 0 for a success, and for
\* a child that exited otherwise the code it exited with, here 1
ExitCodes == [exit_ok |-> 0, exit_err |-> 1]

\* the step of a session's task in which child.wait() has returned
WaitReturns(s) == s \in DOMAIN sess /\ sess[s].pc = "wait" /\ sess'[s].pc = "done"

\* C32: when child.wait() returns, the session's state becomes
\* Terminated{exit_code} with the exit code of the child, and the tasks of
\* the session are aborted: the input channel and the scrollback channel
\* are gone.
C32_TerminatedWithExitCode ==
    [][\A s \in SessionIds :
          WaitReturns(s) =>
              /\ sess'[s].state = Terminated(Some(ExitCodes[sess[s].child]))
              /\ sess'[s].input = <<>>
              /\ sbchan'[s] = <<>>]_vars

\* when child.wait() returns the session is Terminated, with some exit code
\* or none, and the input channel and the scrollback channel are gone
TerminatedAndAborted ==
    [][\A s \in SessionIds :
          WaitReturns(s) =>
              /\ is_terminated(sess'[s])
              /\ sess[s].child = "exit_ok" => sess'[s].state = Terminated(Some(0))
              /\ sess'[s].input = <<>>
              /\ sbchan'[s] = <<>>]_vars

\* the lines of a file that are complete: each ended by its newline
CompleteLines(bytes) ==
    IF \E i \in DOMAIN bytes : IsNewline(bytes[i])
    THEN LET last == CHOOSE j \in DOMAIN bytes :
                        IsNewline(bytes[j]) /\ \A k \in (j + 1)..Len(bytes) : ~IsNewline(bytes[k])
         IN lines(SubSeq(bytes, 1, last))
    ELSE <<>>

\* the watcher has read the file to its end, and the file was only appended to
ReadToEnd(path) ==
    /\ uwatch.truncated = 0
    /\ path \in DOMAIN positions
    /\ positions[path] >= Len(ufile[path])

\* C33: once the watcher has read a file to its end, every complete line of
\* the file that parses to an entry with a message id has an event with its
\* dedup key (for Codex, whose ids the watcher makes: there are as many
\* events as such lines), however the characters were split over the
\* appends and the change notifications.
C33_NoEntrySkipped ==
    /\ ReadToEnd("claude") =>
          \A i \in DOMAIN CompleteLines(ufile["claude"]) :
              LET entry == parse_claude_line(CompleteLines(ufile["claude"])[i]) IN
              IsSome(entry) =>
                  \E j \in DOMAIN events : dedup_key(events[j]) = dedup_key(Unwrap(entry))
    /\ ReadToEnd("codex") =>
          Cardinality({i \in DOMAIN CompleteLines(ufile["codex"]) :
                          IsSome(parse_codex_line(CompleteLines(ufile["codex"])[i], {}))})
              <= Cardinality({j \in DOMAIN events : events[j].agent = "codex"})

\* the bytes of the binary frames sent to a client, in the order sent
RECURSIVE BinaryBytes(_)
BinaryBytes(frames) ==
    IF frames = <<>> THEN <<>>
    ELSE (IF Head(frames).kind = "binary" THEN Head(frames).data ELSE <<>>)
             \o BinaryBytes(Tail(frames))

\* how many times byte b was sent to client c
TimesSent(c, b) ==
    Cardinality({i \in DOMAIN BinaryBytes(client[c].frames) :
                    BinaryBytes(client[c].frames)[i] = b})

\* client c is attached to a session none of whose bytes was dropped or
\* trimmed, and has been sent all there is to send
CaughtUp(c) ==
    /\ client[c].pc = "live"
    /\ reader[client[c].sid].pc # "send"
    /\ client[c].rx = <<>> /\ ~client[c].lagged
    /\ reader[client[c].sid].produced <= MaxScrollback
    /\ ReadBytesKept(client[c].sid)

\* C34: a client that attached to a session while its PTY produced output,
\* and that has been sent all there is to send, has received every byte read
\* from the PTY exactly once, in the replay frame or in a live frame.
C34_EachByteExactlyOnce ==
    \A c \in Clients :
        CaughtUp(c) =>
            \A b \in 1..reader[client[c].sid].produced : TimesSent(c, b) = 1

\* the half of it that is about the bytes sent twice: no byte is both in the
\* replay frame and in a live frame (it does not hold either)
NoByteSentTwice ==
    \A c \in Clients :
        CaughtUp(c) =>
            \A b \in 1..reader[client[c].sid].produced : TimesSent(c, b) <= 1

\* C35: a session whose state is Terminated stays Terminated: no step of
\* terminate_session, of the task that spawns the PTY or of the wait for the
\* child changes its state back to Starting or Running.
C35_TerminatedIsFinal ==
    [][\A s \in DOMAIN sess : is_terminated(sess[s]) => is_terminated(sess'[s])]_vars

NextMgr ==
    \/ \E t \in TaskIds : MgrCall(t)
    \/ \E t \in TaskIds : MgrCreateIndexRead(t)
    \/ \E t \in TaskIds : MgrCreateSessionsRead(t)
    \/ \E t \in TaskIds : MgrCreateSessionsWrite(t)
    \/ \E t \in TaskIds : MgrCreateIndexWrite(t)
    \/ \E t \in TaskIds : MgrGetIndexRead(t)
    \/ \E t \in TaskIds : MgrGetSessionsRead(t)
    \/ \E t \in TaskIds : MgrCleanupSessionsWrite(t)
    \/ \E t \in TaskIds : MgrCleanupIndexWrite(t)
    \/ \E t \in TaskIds : MgrTerminateAllRead(t)
    \/ \E t \in TaskIds : MgrTerminateAllLoop(t)

\* the session manager under overlapping calls; the runtime polls every task
\* that can go on, so a call that can take its next step takes it
SpecMgr ==
    /\ Init
    /\ [][NextMgr]_vars
    /\ \A t \in TaskIds : WF_vars(MgrStep(t))

\* C36: every create_session, get_session_for_profile, cleanup_terminated
\* and terminate_all call that is entered returns, whatever other calls run
\* at the same time.
C36_EveryCallReturns ==
    \A t \in TaskIds : (mgr.task[t].pc # "idle") ~> (mgr.task[t].pc = "idle")

\* the sessions of a profile whose child process is alive
LiveChildren(alias) ==
    {s \in DOMAIN sess : sess[s].profile_alias = alias /\ sess[s].child = "alive"}

\* C37: at any time at most one PTY child process is alive per profile, and
\* a session that is reported Terminated has no live child.
C37_OneLiveChildPerProfile ==
    /\ \A a \in Aliases : Cardinality(LiveChildren(a)) <= 1
    /\ \A s \in DOMAIN sess : is_terminated(sess[s]) => sess[s].child # "alive"

\* the first half alone: at most one live child per profile (it does not
\* hold either)
AtMostOneLiveChild == \A a \in Aliases : Cardinality(LiveChildren(a)) <= 1

\* terminate_session has marked a session Terminated whose child runs on,
\* and a second session of the same profile has a live child too
ReplacedWhileAlive ==
    \E s1, s2 \in DOMAIN sess :
        /\ s1 # s2 /\ sess[s1].profile_alias = sess[s2].profile_alias
        /\ is_terminated(sess[s1]) /\ sess[s1].pc = "wait" /\ sess[s1].child = "alive"
        /\ ~is_terminated(sess[s2]) /\ sess[s2].child = "alive"

\* C38: when no start, stop or restart is in progress, the ports allocated
\* are the ports of the tracked instances, and the aliases that have a port
\* assigned are the aliases tracked: a start that failed after its port was
\* allocated has released it.
C38_AllocatedEqualsTracked ==
    (\A t \in TaskIds : task[t].pc = "idle") =>
        /\ port_allocator.allocated = {instances[a].port : a \in DOMAIN instances}
        /\ DOMAIN port_allocator.assignments = DOMAIN instances

\* the events broadcast for the entries of one agent's file
EventsOf(path) == {j \in DOMAIN events : events[j].agent = path}

\* C39: a line read more than once produces one event at most: as long as
\* the files have only been appended to, so that every line ever written is
\* still there, there are no more events for a file than it has lines. This
\* holds for Codex too, whose message ids the watcher makes up.
C39_OneEventPerLine ==
    uwatch.truncated = 0 =>
        \A path \in Paths : Cardinality(EventsOf(path)) <= Len(lines(ufile[path]))

\* the same for the Claude file alone, whose ids are in the lines
ClaudeOneEventPerLine ==
    uwatch.truncated = 0 =>
        Cardinality(EventsOf("claude")) <= Len(lines(ufile["claude"]))

\* a request is being handled: the request loop is in handle_request, or a
\* handler of the HTTP server is on its way
RequestInFlight == main.pc = "handle" \/ \E t \in TaskIds : ptask[t].pc # "idle"

\* C40: the watchdog sets the shutdown flag only when the last request
\* received is older than the timeout and no request, on the IPC socket or
\* on the HTTP server, is still being handled.
C40_WatchdogOnlyWhenUnused ==
    [][(~shutdown_flag /\ shutdown_flag') =>
          /\ clock.idle > Unwrap(idle_timeout)
          /\ ~RequestInFlight]_vars

\* the half of it that the watchdog's test gives: the flag is set only when
\* the last message received on the IPC socket is older than the timeout
WatchdogOnlyWhenIpcIdle ==
    [][(~shutdown_flag /\ shutdown_flag') => clock.idle > Unwrap(idle_timeout)]_vars

====
